---- MODULE Spec2Model ----
(***************************************************************************)
(* rosso: an in-memory key/value engine (src/src/engine/scc.rs) behind a   *)
(* RESP server (src/src/server.rs).                                        *)
(*                                                                         *)
(* Time is an absolute instant in milliseconds since the Unix epoch.       *)
(* String values are sequences of one-character strings, so that the       *)
(* decimal parse and print used by INCR are computed and not assumed.      *)
(***************************************************************************)
EXTENDS Integers, Sequences, FiniteSets, Bags

\* ------------------------------------------------------------------ bounds
NumClients == 2
MaxCalls == 2
MaxOps == 3
MaxAdvance == 2
MaxLen == 2
MaxSeq == 11
MaxOptionTokens == 4
MaxFrames == 3
MaxSize == 3
MaxWrites == 2
MaxLine == 4

\* ------------------------------------------------------- program constants
MillisPerSec == 1000
StartClock == 1000
AdvanceSteps == {500, 1000}
MaxClock == StartClock + MaxAdvance * 500

\* the callers of the engine: the test's own connection and its client threads
Main == 0
Clients == 1..NumClients
Threads == {Main} \cup Clients
NoThread == NumClients + 1

Keys == {"k1", "k2"}
\* the key of the workloads that use one key only
OneKey == {"k1"}

\* ---------------------------------------------------------------- options
None == [some |-> FALSE, t |-> 0]
Some(t) == [some |-> TRUE, t |-> t]

\* ------------------------------------------------------- redis.rs : types
NoExpiration == [kind |-> "None", n |-> 0]
Seconds(n) == [kind |-> "Seconds", n |-> n]
Milliseconds(n) == [kind |-> "Milliseconds", n |-> n]
UnixTimeSeconds(n) == [kind |-> "UnixTimeSeconds", n |-> n]
UnixTimeMilliseconds(n) == [kind |-> "UnixTimeMilliseconds", n |-> n]
Keep == [kind |-> "Keep", n |-> 0]

NoCondition == "None"
IfNotExists == "IfNotExists"
IfExists == "IfExists"

Null == [tag |-> "Null", s |-> <<>>, n |-> 0, msg |-> ""]
Ok == [tag |-> "Ok", s |-> <<>>, n |-> 0, msg |-> ""]
BulkString(s) == [tag |-> "BulkString", s |-> s, n |-> 0, msg |-> ""]
Integer(n) == [tag |-> "Integer", s |-> <<>>, n |-> n, msg |-> ""]
Error(m) == [tag |-> "Error", s |-> <<>>, n |-> 0, msg |-> m]
NoResult == [tag |-> "NoResult", s |-> <<>>, n |-> 0, msg |-> ""]
\* no Result at all: the call panicked and unwound
Panic == [tag |-> "Panic", s |-> <<>>, n |-> 0, msg |-> ""]
\* an Integer of ten digits or more, held as its decimal text
WideInteger(d) == [tag |-> "Integer", s |-> d, n |-> 0, msg |-> ""]

Command(op, k, v, ex, g, c) ==
    [op |-> op, key |-> k, value |-> v, expiration |-> ex, get |-> g, condition |-> c]
Get(k) == Command("Get", k, <<>>, NoExpiration, FALSE, NoCondition)
Set(k, v, ex, g, c) == Command("Set", k, v, ex, g, c)
Incr(k) == Command("Incr", k, <<>>, NoExpiration, FALSE, NoCondition)
Ttl(k) == Command("Ttl", k, <<>>, NoExpiration, FALSE, NoCondition)
AppendCmd(k, v) == Command("Append", k, v, NoExpiration, FALSE, NoCondition)
Strlen(k) == Command("Strlen", k, <<>>, NoExpiration, FALSE, NoCondition)
Client == Command("Client", "", <<>>, NoExpiration, FALSE, NoCondition)
NoCommand == Command("None", "", <<>>, NoExpiration, FALSE, NoCondition)

ReadOps == {"Get", "Ttl", "Strlen"}
EntryOps == {"Set", "Incr", "Append"}

\* ------------------------------------------------- scc.rs : Expirable<T>
Expirable(value, expires_at) == [present |-> TRUE, value |-> value, expires_at |-> expires_at]
new_perpetual(value) == Expirable(value, None)
Vacant == [present |-> FALSE, value |-> <<>>, expires_at |-> None]

\* faulty variant: the instant of expiration itself does not count as expired yet
is_expired_after(e, now) == e.expires_at.some /\ e.expires_at.t < now

is_expired(e, now) == e.expires_at.some /\ e.expires_at.t <= now

\* --------------------------------------------- i64 <-> decimal string (std)
DigitChars == <<"0", "1", "2", "3", "4", "5", "6", "7", "8", "9">>
IsDigit(c) == \E i \in 1..10 : DigitChars[i] = c
DigitVal(c) == (CHOOSE i \in 1..10 : DigitChars[i] = c) - 1

RECURSIVE DigitsValue(_)
DigitsValue(s) ==
    IF s = <<>> THEN 0
    ELSE 10 * DigitsValue(SubSeq(s, 1, Len(s) - 1)) + DigitVal(s[Len(s)])

\* a magnitude of up to SmallDigits digits is held as a number, a longer one as
\* its decimal digits
SmallDigits == 9
I64MaxDigits ==
    <<"9", "2", "2", "3", "3", "7", "2", "0", "3", "6", "8", "5", "4", "7", "7", "5", "8", "0", "7">>
I64MinDigits ==
    <<"9", "2", "2", "3", "3", "7", "2", "0", "3", "6", "8", "5", "4", "7", "7", "5", "8", "0", "8">>

RECURSIVE StripZeros(_)
StripZeros(d) == IF Len(d) > 1 /\ d[1] = "0" THEN StripZeros(Tail(d)) ELSE d

\* a < b, for two magnitudes without leading zeros
DigitsLess(a, b) ==
    \/ Len(a) < Len(b)
    \/ /\ Len(a) = Len(b)
       /\ \E i \in 1..Len(a) : /\ DigitVal(a[i]) < DigitVal(b[i])
                               /\ \A j \in 1..(i - 1) : a[j] = b[j]

RECURSIVE IncDigits(_)
IncDigits(d) ==
    IF d = <<>> THEN <<"1">>
    ELSE IF d[Len(d)] = "9" THEN IncDigits(SubSeq(d, 1, Len(d) - 1)) \o <<"0">>
    ELSE SubSeq(d, 1, Len(d) - 1) \o <<DigitChars[DigitVal(d[Len(d)]) + 2]>>

RECURSIVE DecDigits(_)
DecDigits(d) ==
    IF d[Len(d)] = "0" THEN DecDigits(SubSeq(d, 1, Len(d) - 1)) \o <<"9">>
    ELSE SubSeq(d, 1, Len(d) - 1) \o <<DigitChars[DigitVal(d[Len(d)])]>>

ParseOk(v) == [ok |-> TRUE, v |-> v, neg |-> FALSE, wide |-> <<>>, msg |-> ""]
ParseWide(neg, d) == [ok |-> TRUE, v |-> 0, neg |-> neg, wide |-> d, msg |-> ""]
ParseErr(m) == [ok |-> FALSE, v |-> 0, neg |-> FALSE, wide |-> <<>>, msg |-> m]

\* str::parse::<i64>: optional sign, then at least one digit, nothing else, and
\* a value within i64
ParseI64(s) ==
    IF s = <<>> THEN ParseErr("cannot parse integer from empty string")
    ELSE LET signed == s[1] \in {"+", "-"}
             neg == s[1] = "-"
             body == IF signed THEN Tail(s) ELSE s
             mag == StripZeros(body)
         IN IF body = <<>> \/ \E i \in 1..Len(body) : ~IsDigit(body[i])
            THEN ParseErr("invalid digit found in string")
            ELSE IF Len(mag) <= SmallDigits
            THEN ParseOk(IF neg THEN 0 - DigitsValue(mag) ELSE DigitsValue(mag))
            ELSE IF ~neg /\ DigitsLess(I64MaxDigits, mag)
            THEN ParseErr("number too large to fit in target type")
            ELSE IF neg /\ DigitsLess(I64MinDigits, mag)
            THEN ParseErr("number too small to fit in target type")
            ELSE ParseWide(neg, mag)

RECURSIVE NatToString(_)
NatToString(n) ==
    IF n < 10 THEN <<DigitChars[n + 1]>>
    ELSE NatToString(n \div 10) \o <<DigitChars[(n % 10) + 1]>>

\* i64::to_string()
to_string(n) == IF n < 0 THEN <<"-">> \o NatToString(0 - n) ELSE NatToString(n)

\* ------------------------------------------------------- resp.rs : Value
\* s: the characters of a BulkString; text: a SimpleString or an Error message;
\* n, digits: an Integer, small or of ten digits and more; items: an Array
resp_Value(type, s, text, n, digits, items) ==
    [type |-> type, s |-> s, text |-> text, n |-> n, digits |-> digits, items |-> items]
resp_SimpleString(text) == resp_Value("SimpleString", <<>>, text, 0, <<>>, <<>>)
resp_BulkString(s) == resp_Value("BulkString", s, "", 0, <<>>, <<>>)
resp_Array(items) == resp_Value("Array", <<>>, "", 0, <<>>, items)
resp_Error(text) == resp_Value("Error", <<>>, text, 0, <<>>, <<>>)
resp_Null == resp_Value("Null", <<>>, "", 0, <<>>, <<>>)
resp_Integer(n) == resp_Value("Integer", <<>>, "", n, <<>>, <<>>)
resp_WideInteger(d) == resp_Value("Integer", <<>>, "", 0, d, <<>>)

\* the String that a sequence of characters spells
RECURSIVE Join(_)
Join(chars) == IF chars = <<>> THEN "" ELSE Head(chars) \o Join(Tail(chars))

\* ------------------------------------------------ resp_cmd.rs : decoding
\* Result<redis::Command>
Decoded(c) == [ok |-> TRUE, cmd |-> c, msg |-> ""]
DecodeErr(m) == [ok |-> FALSE, cmd |-> NoCommand, msg |-> m]
\* Result<VecDeque<String>>
Args(a) == [ok |-> TRUE, args |-> a, msg |-> ""]
ArgsErr(m) == [ok |-> FALSE, args |-> <<>>, msg |-> m]

\* faulty variant: only the command name is required to be a bulk string
to_vec_NameOnly(value) ==
    IF value.type # "Array" THEN ArgsErr("invalid command: it should be an array")
    ELSE IF value.items # <<>> /\ value.items[1].type # "BulkString"
    THEN ArgsErr("invalid command: it should be an array of bulk strings")
    ELSE Args([i \in DOMAIN value.items |-> value.items[i].s])

\* lines 114-131
to_vec(value) ==
    IF value.type # "Array" THEN ArgsErr("invalid command: it should be an array")
    ELSE IF \E i \in DOMAIN value.items : value.items[i].type # "BulkString"
    THEN ArgsErr("invalid command: it should be an array of bulk strings")
    ELSE Args([i \in DOMAIN value.items |-> value.items[i].s])

\* lines 96-98: arg fails on an empty queue; lines 108-112: integer
WrongNumber == "wrong number of arguments"
integer(args) ==
    IF args = <<>> THEN ParseErr(WrongNumber)
    ELSE LET p == ParseI64(Head(args))
         IN IF p.ok THEN p ELSE ParseErr("not an integer: " \o Join(Head(args)))

\* lines 24-27, 75-94: the commands of one key, and Append
get(args) == IF args = <<>> THEN DecodeErr(WrongNumber) ELSE Decoded(Get(Join(args[1])))
incr(args) == IF args = <<>> THEN DecodeErr(WrongNumber) ELSE Decoded(Incr(Join(args[1])))
ttl(args) == IF args = <<>> THEN DecodeErr(WrongNumber) ELSE Decoded(Ttl(Join(args[1])))
strlen(args) == IF args = <<>> THEN DecodeErr(WrongNumber) ELSE Decoded(Strlen(Join(args[1])))
append(args) ==
    IF Len(args) < 2 THEN DecodeErr(WrongNumber)
    ELSE Decoded(AppendCmd(Join(args[1]), args[2]))

\* faulty variant: an option does not replace an earlier one of its category
RECURSIVE set_options_FirstWins(_, _, _, _, _, _)
set_options_FirstWins(k, v, args, expiration, g, condition) ==
    IF args = <<>> THEN Decoded(Set(k, v, expiration, g, condition))
    ELSE LET a == Join(Head(args))
             rest == Tail(args)
             n == integer(rest)
             ex(e) == IF expiration = NoExpiration THEN e ELSE expiration
             cond(c) == IF condition = NoCondition THEN c ELSE condition
             timed(e) == IF n.ok
                         THEN set_options_FirstWins(k, v, Tail(rest), ex(e), g, condition)
                         ELSE DecodeErr(n.msg)
         IN CASE a = "EX" -> timed(Seconds(n.v))
              [] a = "PX" -> timed(Milliseconds(n.v))
              [] a = "EXAT" -> timed(UnixTimeSeconds(n.v))
              [] a = "PXAT" -> timed(UnixTimeMilliseconds(n.v))
              [] a = "KEEPTTL" -> set_options_FirstWins(k, v, rest, ex(Keep), g, condition)
              [] a = "GET" -> set_options_FirstWins(k, v, rest, expiration, TRUE, condition)
              [] a = "NX" -> set_options_FirstWins(k, v, rest, expiration, g, cond(IfNotExists))
              [] a = "XX" -> set_options_FirstWins(k, v, rest, expiration, g, cond(IfExists))
              [] OTHER -> DecodeErr("unexpected argument '" \o a \o "'")

\* lines 35-65: the loop over the options of SET, one iteration per call
RECURSIVE set_options(_, _, _, _, _, _)
set_options(k, v, args, expiration, g, condition) ==
    IF args = <<>> THEN Decoded(Set(k, v, expiration, g, condition))
    ELSE LET a == Join(Head(args))
             rest == Tail(args)
             n == integer(rest)
             timed(e) == IF n.ok
                         THEN set_options(k, v, Tail(rest), e, g, condition)
                         ELSE DecodeErr(n.msg)
         IN CASE a = "EX" -> timed(Seconds(n.v))
              [] a = "PX" -> timed(Milliseconds(n.v))
              [] a = "EXAT" -> timed(UnixTimeSeconds(n.v))
              [] a = "PXAT" -> timed(UnixTimeMilliseconds(n.v))
              [] a = "KEEPTTL" -> set_options(k, v, rest, Keep, g, condition)
              [] a = "GET" -> set_options(k, v, rest, expiration, TRUE, condition)
              [] a = "NX" -> set_options(k, v, rest, expiration, g, IfNotExists)
              [] a = "XX" -> set_options(k, v, rest, expiration, g, IfExists)
              [] OTHER -> DecodeErr("unexpected argument '" \o a \o "'")

\* lines 29-73
set(args) ==
    IF Len(args) < 2 THEN DecodeErr(WrongNumber)
    ELSE set_options(Join(args[1]), args[2], SubSeq(args, 3, Len(args)),
                     NoExpiration, FALSE, NoCondition)

\* lines 7-22
parse_command(command) ==
    LET cmd == to_vec(command)
    IN IF ~cmd.ok THEN DecodeErr(cmd.msg)
       ELSE IF cmd.args = <<>> THEN DecodeErr("command is empty")
       ELSE LET cmd_name == Join(Head(cmd.args))
                args == Tail(cmd.args)
            IN CASE cmd_name = "GET" -> get(args)
                 [] cmd_name = "SET" -> set(args)
                 [] cmd_name = "INCR" -> incr(args)
                 [] cmd_name = "TTL" -> ttl(args)
                 [] cmd_name = "APPEND" -> append(args)
                 [] cmd_name = "STRLEN" -> strlen(args)
                 [] cmd_name = "CLIENT" -> Decoded(Client)
                 [] OTHER -> DecodeErr("unknown command '" \o cmd_name \o "'")

\* faulty variant: an Error of the engine is given the prefix of the decoder's
serialise_result_Prefixed(result) ==
    CASE result.tag = "BulkString" -> resp_BulkString(result.s)
      [] result.tag = "Null" -> resp_Null
      [] result.tag = "Ok" -> resp_SimpleString("OK")
      [] result.tag = "Integer" -> IF result.s = <<>> THEN resp_Integer(result.n)
                                   ELSE resp_WideInteger(result.s)
      [] OTHER -> resp_Error("ERR " \o result.msg)

\* lines 133-141
serialise_result(result) ==
    CASE result.tag = "BulkString" -> resp_BulkString(result.s)
      [] result.tag = "Null" -> resp_Null
      [] result.tag = "Ok" -> resp_SimpleString("OK")
      [] result.tag = "Integer" -> IF result.s = <<>> THEN resp_Integer(result.n)
                                   ELSE resp_WideInteger(result.s)
      [] OTHER -> resp_Error(result.msg)

\* ------------------------------------------- resp.rs : parse and serialise
\* A stream is a sequence of bytes, each a string of one character. The text of
\* a SimpleString or of an Error is written in one piece, as write_all is given it
CR == "\r"
LF == "\n"
CRLF == <<CR, LF>>

\* std::io::Result<T> of the readers: a Value or a length and the bytes left in
\* the stream, an Err, or a panic
IoOk(v, n, rest) == [kind |-> "ok", value |-> v, len |-> n, rest |-> rest, msg |-> ""]
IoErr(m) == [kind |-> "err", value |-> resp_Null, len |-> 0, rest |-> <<>>, msg |-> m]
IoPanic == [kind |-> "panic", value |-> resp_Null, len |-> 0, rest |-> <<>>, msg |-> ""]

\* line 38, read_line: the bytes up to the first LF, which is included, or up to
\* the end of the stream
read_line(b) ==
    IF \E i \in DOMAIN b : b[i] = LF
    THEN SubSeq(b, 1, CHOOSE i \in DOMAIN b : b[i] = LF /\ \A j \in 1..(i - 1) : b[j] # LF)
    ELSE b

\* lines 40-42, str::parse::<usize>: digits, after an optional plus sign. The
\* lines of this model are shorter than the twenty digits of usize::MAX
from_str_usize(s, rest) ==
    LET d == IF Len(s) > 1 /\ s[1] = "+" THEN Tail(s) ELSE s
    IN IF d # <<>> /\ \A i \in DOMAIN d : IsDigit(d[i])
       THEN IoOk(resp_Null, DigitsValue(d), rest)
       ELSE IoErr("invalid length")

\* lines 36-43. len_str.len() - 2 on a line of fewer than two bytes: a panic with
\* overflow checks; without them the difference wraps to a length beyond the
\* line's own, for which truncate does nothing
parse_length(b, bld) ==
    LET len_str == read_line(b)
        rest == SubSeq(b, Len(len_str) + 1, Len(b))
    IN IF Len(len_str) < 2
       THEN IF bld = "debug" THEN IoPanic ELSE from_str_usize(len_str, rest)
       ELSE from_str_usize(SubSeq(len_str, 1, Len(len_str) - 2), rest)

\* faulty variant: the string ends at the first CR LF
parse_string_Line(b, length) ==
    LET line == read_line(b)
    IN IF Len(line) < 2 THEN IoErr("UnexpectedEof")
       ELSE IoOk(resp_BulkString(SubSeq(line, 1, Len(line) - 2)), 0,
                 SubSeq(b, Len(line) + 1, Len(b)))

\* lines 45-54: length bytes, then two bytes more, whatever they are
parse_string(b, length) ==
    IF Len(b) < length + 2 THEN IoErr("UnexpectedEof")
    ELSE IoOk(resp_BulkString(SubSeq(b, 1, length)), 0, SubSeq(b, length + 3, Len(b)))

\* lines 14-34 
RECURSIVE parse(_, _), parse_items(_, _, _, _)
parse(b, bld) ==
    IF b = <<>> THEN IoErr("UnexpectedEof")
    ELSE LET len == parse_length(Tail(b), bld)
         IN CASE Head(b) = "*" ->
                     IF len.kind # "ok" THEN len
                     ELSE parse_items(len.len, len.rest, bld, <<>>)
              [] Head(b) = "$" ->
                     IF len.kind # "ok" THEN len
                     ELSE parse_string(len.rest, len.len)
              [] OTHER -> IoErr("invalid prefix")

\* lines 20-23: the loop over the elements of the array
parse_items(n, b, bld, values) ==
    IF n = 0 THEN IoOk(resp_Array(values), 0, b)
    ELSE LET v == parse(b, bld)
         IN IF v.kind # "ok" THEN v
            ELSE parse_items(n - 1, v.rest, bld, Append(values, v.value))

RECURSIVE serialise(_), serialise_items(_)
\* faulty variant: Null is written as the null bulk string of RESP2
serialise_Resp2Null(value) ==
    CASE value.type = "SimpleString" -> <<"+", value.text>> \o CRLF
      [] value.type = "Error" -> <<"-", value.text>> \o CRLF
      [] value.type = "BulkString" ->
             <<"$">> \o to_string(Len(value.s)) \o CRLF \o value.s \o CRLF
      [] value.type = "Array" ->
             <<"*">> \o to_string(Len(value.items)) \o CRLF \o serialise_items(value.items)
      [] value.type = "Null" -> <<"$", "-", "1">> \o CRLF
      [] OTHER ->
             <<":">> \o (IF value.digits = <<>> THEN to_string(value.n) ELSE value.digits)
             \o CRLF

\* lines 56-96: the bytes that serialise writes
serialise(value) ==
    CASE value.type = "SimpleString" -> <<"+", value.text>> \o CRLF
      [] value.type = "Error" -> <<"-", value.text>> \o CRLF
      [] value.type = "BulkString" ->
             <<"$">> \o to_string(Len(value.s)) \o CRLF \o value.s \o CRLF
      [] value.type = "Array" ->
             <<"*">> \o to_string(Len(value.items)) \o CRLF \o serialise_items(value.items)
      [] value.type = "Null" -> <<"_">> \o CRLF
      [] OTHER ->
             <<":">> \o (IF value.digits = <<>> THEN to_string(value.n) ELSE value.digits)
             \o CRLF

\* lines 82-84: the loop over the elements of the array
serialise_items(items) ==
    IF items = <<>> THEN <<>> ELSE serialise(Head(items)) \o serialise_items(Tail(items))

\* ------------------------------------------------ scc.rs : call, by parts
\* how the program was built: with overflow checks (debug) or without (release)
VARIABLE build
Builds == {"debug", "release"}

\* lines 73-84, `n as u64`: a negative n becomes 2^64 - |n|. As seconds that is
\* more than a SystemTime holds (i64 seconds on unix), and `+` panics; as
\* milliseconds it is some 584 million years, an instant FarFuture beyond every
\* clock value.
DurationOverflows(expiration) ==
    expiration.kind \in {"Seconds", "UnixTimeSeconds"} /\ expiration.n < 0
FarFuture == MaxClock + MillisPerSec

\* lines 71-87: the expiration a Set computes before it looks at the entry
SetExpiration(expiration, now) ==
    CASE expiration.kind = "Seconds" -> Some(now + expiration.n * MillisPerSec)
      [] expiration.kind = "Milliseconds" ->
            IF expiration.n < 0 THEN Some(FarFuture) ELSE Some(now + expiration.n)
      [] expiration.kind = "UnixTimeSeconds" -> Some(expiration.n * MillisPerSec)
      [] expiration.kind = "UnixTimeMilliseconds" ->
            IF expiration.n < 0 THEN Some(FarFuture) ELSE Some(expiration.n)
      [] OTHER -> None

Outcome(e, r) == [entry |-> e, result |-> r]

\* faulty variant: the returned previous value is read after the replacement
Replaced_ReturnsNew(e, c, ex) ==
    LET ex2 == IF c.expiration.kind = "Keep" THEN e.expires_at ELSE ex
    IN Outcome(Expirable(c.value, ex2), IF c.get THEN BulkString(c.value) ELSE Ok)

\* faulty variant: a Set without expiration leaves the old expires_at in place
Replaced_KeepsExpiry(e, c, ex) ==
    LET ex2 == IF c.expiration.kind \in {"Keep", "None"} THEN e.expires_at ELSE ex
    IN Outcome(Expirable(c.value, ex2), IF c.get THEN BulkString(e.value) ELSE Ok)

\* faulty variant: Keep is treated like no expiration at all
Replaced_IgnoresKeep(e, c, ex) ==
    Outcome(Expirable(c.value, ex), IF c.get THEN BulkString(e.value) ELSE Ok)

\* lines 96-106: the occupied entry is replaced, the previous value returned
Replaced(e, c, ex) ==
    LET ex2 == IF c.expiration.kind = "Keep" THEN e.expires_at ELSE ex
    IN Outcome(Expirable(c.value, ex2), IF c.get THEN BulkString(e.value) ELSE Ok)

\* lines 115-120: the vacant entry is filled
Inserted(e, c, ex) == Outcome(Expirable(c.value, ex), IF c.get THEN Null ELSE Ok)

\* faulty variant: IfNotExists is not looked at
SetOccupied_IgnoresNX(e, c, ex) == Replaced(e, c, ex)

\* faulty variant: a Set rejected by IfNotExists still applies its expiration
SetOccupied_NxSetsExpiry(e, c, ex) ==
    IF c.condition = IfNotExists THEN Outcome([e EXCEPT !.expires_at = ex], Null)
    ELSE Replaced(e, c, ex)

\* faulty variant: without an expiration of its own the Set inherits the old one
SetOccupied_InheritsExpiry(e, c, ex) ==
    IF c.condition = IfNotExists THEN Outcome(e, Null)
    ELSE Replaced(e, c, IF ex.some THEN ex ELSE e.expires_at)

\* lines 89-107: the Occupied arm
SetOccupied(e, c, ex) ==
    IF c.condition = IfNotExists THEN Outcome(e, Null) ELSE Replaced(e, c, ex)

\* faulty variant: IfExists is not looked at
SetVacant_IgnoresXX(e, c, ex) == Inserted(e, c, ex)

\* lines 108-121: the Vacant arm
SetVacant(e, c, ex) ==
    IF c.condition = IfExists THEN Outcome(e, Null) ELSE Inserted(e, c, ex)

\* lines 70-122: Set, once it holds the entry handle
SetEntry(e, c, now) ==
    IF DurationOverflows(c.expiration) THEN Outcome(e, Panic)
    ELSE IF e.present
    THEN SetOccupied(e, c, SetExpiration(c.expiration, now))
    ELSE SetVacant(e, c, SetExpiration(c.expiration, now))

\* faulty variant: the incremented value is returned but not stored
IncrEntry_NotStored(e) ==
    IF e.present
    THEN LET p == ParseI64(e.value)
         IN IF p.ok THEN Outcome(e, Integer(p.v + 1)) ELSE Outcome(e, Error(p.msg))
    ELSE Outcome(new_perpetual(<<"1">>), Integer(1))

\* faulty variant: a value that does not parse counts as zero
IncrEntry_ParseFailAsZero(e) ==
    IF e.present
    THEN LET p == ParseI64(e.value)
         IN Outcome([e EXCEPT !.value = to_string(p.v + 1)], Integer(p.v + 1))
    ELSE Outcome(new_perpetual(<<"1">>), Integer(1))

\* faulty variant: a fresh counter starts at zero
IncrEntry_FromZero(e) ==
    IF e.present
    THEN LET p == ParseI64(e.value)
         IN IF p.ok
            THEN Outcome([e EXCEPT !.value = to_string(p.v + 1)], Integer(p.v + 1))
            ELSE Outcome(e, Error(p.msg))
    ELSE Outcome(new_perpetual(<<"0">>), Integer(0))

\* line 130, v + 1 for a v of ten digits or more, as decimal text
WideSucc(neg, d) == IF neg THEN <<"-">> \o StripZeros(DecDigits(d)) ELSE IncDigits(d)
IntegerOfText(txt) ==
    LET mag == IF txt[1] = "-" THEN Tail(txt) ELSE txt
    IN IF Len(mag) <= SmallDigits
       THEN Integer(IF txt[1] = "-" THEN 0 - DigitsValue(mag) ELSE DigitsValue(mag))
       ELSE WideInteger(txt)

\* line 130, v + 1 for v = i64::MAX: a panic with overflow checks, i64::MIN without
IncrOverflow(e) ==
    IF build = "debug" THEN Outcome(e, Panic)
    ELSE Outcome([e EXCEPT !.value = <<"-">> \o I64MinDigits],
                 WideInteger(<<"-">> \o I64MinDigits))

\* lines 125-139
IncrEntry(e) ==
    IF e.present
    THEN LET p == ParseI64(e.value)
         IN IF ~p.ok THEN Outcome(e, Error(p.msg))
            ELSE IF p.wide = <<>>
            THEN Outcome([e EXCEPT !.value = to_string(p.v + 1)], Integer(p.v + 1))
            ELSE IF ~p.neg /\ p.wide = I64MaxDigits THEN IncrOverflow(e)
            ELSE Outcome([e EXCEPT !.value = WideSucc(p.neg, p.wide)],
                         IntegerOfText(WideSucc(p.neg, p.wide)))
    ELSE Outcome(new_perpetual(<<"1">>), Integer(1))

\* faulty variant: the appended value is stored as a new perpetual entry
AppendEntry_Perpetual(e, c) ==
    IF e.present
    THEN Outcome(new_perpetual(e.value \o c.value), Integer(Len(e.value \o c.value)))
    ELSE Outcome(new_perpetual(c.value), Integer(Len(c.value)))

\* lines 149-164
AppendEntry(e, c) ==
    IF e.present
    THEN Outcome([e EXCEPT !.value = e.value \o c.value], Integer(Len(e.value \o c.value)))
    ELSE Outcome(new_perpetual(c.value), Integer(Len(c.value)))

\* what an entry-based command does with the entry handle it holds
ApplyEntry(e, c, now) ==
    CASE c.op = "Set" -> SetEntry(e, c, now)
      [] c.op = "Incr" -> IncrEntry(e)
      [] OTHER -> AppendEntry(e, c)

\* lines 140-148: the reader closure of Ttl
TtlReader(e, now) ==
    IF ~e.expires_at.some THEN -1
    ELSE IF e.expires_at.t >= now
         THEN (e.expires_at.t - now) \div MillisPerSec
         ELSE -2

\* faulty variant: Strlen of an absent key answers like Ttl does
ReadEntry_StrlenAbsent(e, c, now) ==
    CASE c.op = "Get" -> IF e.present THEN BulkString(e.value) ELSE Null
      [] c.op = "Ttl" -> Integer(IF e.present THEN TtlReader(e, now) ELSE -2)
      [] OTHER -> Integer(IF e.present THEN Len(e.value) ELSE -2)

\* lines 59-62, 140-148, 165-167: map.read(key, reader) and the unwrap_or
ReadEntry(e, c, now) ==
    CASE c.op = "Get" -> IF e.present THEN BulkString(e.value) ELSE Null
      [] c.op = "Ttl" -> Integer(IF e.present THEN TtlReader(e, now) ELSE -2)
      [] OTHER -> Integer(IF e.present THEN Len(e.value) ELSE 0)

\* faulty variant: an expired entry loses its expiration instead of being removed
remove_if_unexpires(e, now) ==
    IF e.present /\ is_expired(e, now) THEN [e EXCEPT !.expires_at = None] ELSE e

\* faulty variant: no eager expiration
remove_if_never(e, now) == e

\* lines 174, 182: map.remove_if(key, |e| e.is_expired(clock.now()))
remove_if(e, now) == IF e.present /\ is_expired(e, now) THEN Vacant ELSE e

\* ------------------------------------------------------------------ state
VARIABLES
    store,      \* scc.rs:36  map: key -> Expirable<String> (Vacant when absent)
    clock,      \* scc.rs:37  what clock.now() returns
    lock,       \* the holder of each key's bucket lock / entry handle
    mutex,      \* server.rs:14  the holder of Arc<Mutex<engine>>
    via,        \* "server": calls go through server.rs:36; "engine": direct callers
    workload,   \* which commands the callers issue
    pc,         \* each caller's position inside call
    cmd,        \* each caller's command in progress
    calls,      \* how many calls each client of a scenario has started
    ops,        \* how many calls have been started in all, outside the scenarios
    seen,       \* per caller: the entry and the clock its remove_if looked at
    last,       \* the call that returned last: command, what it saw, its result
    lastWrite,  \* per key: the last call that wrote the entry, and its clock
    hist,       \* the bag of results returned to the clients of a scenario
    initial,    \* the counter value a scenario starts from
    configs,    \* the linearizations still possible for the history so far
    wire,       \* resp_cmd.rs:7  the resp::Value handed to parse_command
    parsed,     \* resp_cmd.rs:7  what parse_command returned for it
    conn,       \* server.rs:25  per connection: its task, its socket, its frames
    accepting,  \* server.rs:16  whether the accept loop of start is running
    response,   \* server.rs:36  the resp::Value that run_cmd returned
    bytes,      \* resp.rs:14, 56  the bytes of a stream, written and not yet read
    written,    \* what has been written into the stream so far: values, or bytes
    got         \* what the calls of parse and parse_length on the stream returned

engineVars == <<store, clock, lock, mutex, via, workload, pc, cmd, calls, ops, seen, last,
                lastWrite, hist, initial, configs, build>>
codecVars == <<response, bytes, written, got>>
netVars == <<wire, parsed, conn, accepting, codecVars>>
vars == <<store, clock, lock, mutex, via, workload, pc, cmd, calls, ops, seen, last,
          lastWrite, hist, initial, configs, build, wire, parsed, conn, accepting,
          response, bytes, written, got>>

\* ------------------------------------------------------------- the inputs
V42 == <<"4", "2">>
SetValues == {<<"9">>}
AppendValues == {<<"a">>}
Expirations == {NoExpiration, Seconds(0), Seconds(1), Milliseconds(500), Keep}
Conditions == {NoCondition, IfNotExists, IfExists}
InitialValues == {8, 42}

AnyCommands ==
    {Get(k) : k \in OneKey} \cup {Ttl(k) : k \in OneKey} \cup {Strlen(k) : k \in OneKey}
    \cup {Incr(k) : k \in OneKey} \cup {Client}
    \cup {AppendCmd(k, v) : k \in OneKey, v \in AppendValues}
    \cup {Set(k, v, ex, g, c) : k \in OneKey, v \in SetValues, ex \in Expirations,
                                g \in BOOLEAN, c \in Conditions}

LinCommands ==
    {Get("k1"), Incr("k1"),
     Set("k1", <<"9">>, Seconds(0), FALSE, NoCondition),
     Set("k1", <<"9">>, Seconds(1), TRUE, NoCondition)}

\* the inputs at the edges of i64 and of the clock
EdgeExpirations ==
    {Seconds(-1), Milliseconds(-1), Seconds(0), Milliseconds(0),
     UnixTimeSeconds(-1), UnixTimeMilliseconds(-1), UnixTimeMilliseconds(500),
     UnixTimeSeconds(2), UnixTimeMilliseconds(1500)}
EdgeCommands ==
    {Get("k1"), Ttl("k1"), Incr("k1"), Set("k1", I64MaxDigits, NoExpiration, FALSE, NoCondition)}
    \cup {Set("k1", <<"9">>, ex, FALSE, NoCondition) : ex \in EdgeExpirations}

\* strings of every length up to MaxLen, the empty one included, read back
StrlenCommands ==
    {Get("k1"), Strlen("k1"), AppendCmd("k1", <<"a">>),
     Set("k1", <<>>, NoExpiration, FALSE, NoCondition),
     Set("k1", <<>>, Milliseconds(500), FALSE, NoCondition),
     Set("k1", <<"9">>, Seconds(1), FALSE, NoCondition)}

\* calls on either key, and a Set whose expiration makes the call panic
MixCommands ==
    {Get(k) : k \in Keys} \cup {Incr(k) : k \in Keys}
    \cup {Set("k1", <<"9">>, Seconds(-1), FALSE, NoCondition)}

\* calls on either key: reads, writes under a deadline, a write whose condition
\* may reject it, an Incr that fails on a value that is no number
IsoCommands ==
    {Get(k) : k \in Keys} \cup {Incr(k) : k \in Keys}
    \cup {Set(k, <<"a">>, Milliseconds(500), FALSE, NoCondition) : k \in Keys}
    \cup {Set(k, <<"9">>, NoExpiration, FALSE, IfNotExists) : k \in Keys}

\* the workloads whose calls are recorded in seen, last and lastWrite
Traced == {"any", "seq", "edge", "strlen", "iso"}

ClientsDone == \A t \in Clients : pc[t] = "idle" /\ calls[t] = MaxCalls

\* what caller t may issue next
Commands(t) ==
    IF t = Main
    THEN IF workload \in {"nx", "incr"} /\ ClientsDone /\ calls[Main] = 0
         THEN {Get("k1")} ELSE {}
    ELSE IF workload \in Traced
         THEN CASE workload = "any" -> IF ops < MaxOps THEN AnyCommands ELSE {}
                [] workload = "edge" -> IF ops < MaxOps THEN EdgeCommands ELSE {}
                [] workload = "strlen" -> IF ops < MaxOps THEN StrlenCommands ELSE {}
                [] workload = "iso" -> IF ops < MaxOps THEN IsoCommands ELSE {}
                [] OTHER -> IF ops < MaxSeq THEN {Incr("k1")}
                            ELSE IF ops = MaxSeq THEN {Get("k1")} ELSE {}
         ELSE IF calls[t] >= MaxCalls THEN {}
              ELSE CASE workload = "nx" -> {Set("k1", V42, NoExpiration, FALSE, IfNotExists)}
                     [] workload = "incr" -> {Incr("k1")}
                     [] workload = "mix" -> MixCommands
                     [] OTHER -> LinCommands

\* ------------------------------------------------- the call as one atomic step
\* the reference behaviour of a call: expire, then read or update, at one clock
AtomicCall(e, c, now) ==
    LET e1 == remove_if(e, now)
    IN IF c.op \in ReadOps THEN Outcome(e1, ReadEntry(e1, c, now))
       ELSE ApplyEntry(e1, c, now)

Linearize(cf, t, c, now) ==
    LET o == AtomicCall(cf.st[c.key], c, now)
    IN [st |-> [cf.st EXCEPT ![c.key] = o.entry], lin |-> [cf.lin EXCEPT ![t] = o.result]]

LinStep(C, pend, cmds, now) ==
    C \cup UNION {{Linearize(cf, t, cmds[t], now) : t \in {u \in pend : cf.lin[u] = NoResult}}
                  : cf \in C}

RECURSIVE LinClosure(_, _, _, _, _)
LinClosure(C, pend, cmds, now, n) ==
    IF n = 0 THEN C ELSE LinClosure(LinStep(C, pend, cmds, now), pend, cmds, now, n - 1)

Pending(p) == {t \in Threads : p[t] # "idle"}

\* ---------------------------------------------------------------- actions
NoSeen == [entry |-> Vacant, clock |-> 0]
NoCall == [cmd |-> NoCommand, pre |-> Vacant, preClock |-> 0, at |-> Vacant, now |-> 0,
           result |-> NoResult, post |-> Vacant]
NoWrite == [cmd |-> NoCommand, now |-> 0]

\* whether an entry-based command, finding entry e, writes the entry
Wrote(e, c) ==
    CASE c.op = "Set" -> ~(e.present /\ c.condition = IfNotExists)
                         /\ ~(~e.present /\ c.condition = IfExists)
      [] c.op = "Incr" -> ~e.present \/ ParseI64(e.value).ok
      [] OTHER -> TRUE

\* the call of t returns: server.rs:36 drops the MutexGuard at the end of the statement.
\* A call that panics returns nothing: the guard is dropped while unwinding, which
\* poisons the mutex: every later engine.lock().unwrap() panics in its turn.
Return(t, c, at, result, post) ==
    /\ last' = IF workload \notin Traced /\ t # Main THEN last
               ELSE [cmd |-> c, pre |-> seen[t].entry, preClock |-> seen[t].clock,
                     at |-> at, now |-> clock, result |-> result, post |-> post]
    /\ hist' = IF workload \in {"nx", "incr"} /\ t \in Clients
               THEN hist (+) SetToBag({result}) ELSE hist
    /\ configs' = IF workload = "lin"
                  THEN {[cf EXCEPT !.lin[t] = NoResult] : cf \in {d \in configs : d.lin[t] = result}}
                  ELSE configs
    /\ mutex' = IF via = "server" /\ result # Panic THEN NoThread ELSE mutex
    /\ pc' = [pc EXCEPT ![t] = IF result = Panic THEN "panicked" ELSE "idle"]
    /\ cmd' = [cmd EXCEPT ![t] = NoCommand]
    /\ seen' = [seen EXCEPT ![t] = NoSeen]

\* server.rs:36 engine.lock() and scc.rs:57-58: the call begins
Invoke(t, c) ==
    /\ pc[t] = "idle"
    /\ c \in Commands(t)
    /\ via = "server" => mutex = NoThread
    /\ c.op = "Append" => Len(store[c.key].value) + Len(c.value) <= MaxLen
    /\ calls' = IF workload \in Traced THEN calls ELSE [calls EXCEPT ![t] = @ + 1]
    /\ ops' = IF workload \in Traced THEN ops + 1 ELSE ops
    /\ IF c.op = "Client"
       THEN /\ last' = [NoCall EXCEPT !.cmd = c, !.now = clock, !.result = Ok]
            /\ UNCHANGED <<pc, cmd, mutex, configs>>
       ELSE /\ pc' = [pc EXCEPT ![t] = "remove_if"]
            /\ cmd' = [cmd EXCEPT ![t] = c]
            /\ mutex' = IF via = "server" THEN t ELSE mutex
            /\ configs' = IF workload = "lin"
                          THEN LinClosure(configs, Pending(pc'), cmd', clock,
                                          Cardinality(Pending(pc')))
                          ELSE configs
            /\ last' = IF workload \in Traced THEN NoCall ELSE last
    /\ UNCHANGED <<netVars, build, store, clock, lock, via, workload, seen, lastWrite, hist, initial>>

\* faulty variant: the eager-expire step sweeps the whole map
ExpireStep_Sweep(t) ==
    LET k == cmd[t].key
    IN /\ pc[t] = "remove_if"
       /\ lock[k] = NoThread
       /\ store' = [j \in Keys |-> remove_if(store[j], clock)]
       /\ seen' = IF workload \in Traced
                  THEN [seen EXCEPT ![t] = [entry |-> store[k], clock |-> clock]]
                  ELSE seen
       /\ pc' = [pc EXCEPT ![t] = IF cmd[t].op \in ReadOps THEN "read" ELSE "entry"]
       /\ UNCHANGED <<netVars, build, clock, lock, mutex, via, workload, cmd, calls, ops, last,
                      lastWrite, hist, initial, configs>>

\* scc.rs:174 and 182: the eager-expire step of read and of entry
ExpireStep(t) ==
    LET k == cmd[t].key
    IN /\ pc[t] = "remove_if"
       /\ lock[k] = NoThread
       /\ store' = [store EXCEPT ![k] = remove_if(@, clock)]
       /\ seen' = IF workload \in Traced
                  THEN [seen EXCEPT ![t] = [entry |-> store[k], clock |-> clock]]
                  ELSE seen
       /\ pc' = [pc EXCEPT ![t] = IF cmd[t].op \in ReadOps THEN "read" ELSE "entry"]
       /\ UNCHANGED <<netVars, build, clock, lock, mutex, via, workload, cmd, calls, ops, last,
                      lastWrite, hist, initial, configs>>

\* scc.rs:175: map.read(key, reader), and the result of the call
ReadStep(t) ==
    LET k == cmd[t].key
    IN /\ pc[t] = "read"
       /\ lock[k] = NoThread
       /\ Return(t, cmd[t], store[k], ReadEntry(store[k], cmd[t], clock), store[k])
       /\ UNCHANGED <<netVars, build, store, clock, lock, via, workload, calls, ops, lastWrite, initial>>

\* scc.rs:183: map.entry(key) takes the entry handle
EntryStep(t) ==
    LET k == cmd[t].key
    IN /\ pc[t] = "entry"
       /\ lock[k] = NoThread
       /\ lock' = [lock EXCEPT ![k] = t]
       /\ pc' = [pc EXCEPT ![t] = "apply"]
       /\ UNCHANGED <<netVars, build, store, clock, mutex, via, workload, cmd, calls, ops, seen, last,
                      lastWrite, hist, initial, configs>>

\* scc.rs:71-122, 125-139, 149-164: the command works on the handle and drops it
ApplyStep(t) ==
    LET k == cmd[t].key
        o == ApplyEntry(store[k], cmd[t], clock)
    IN /\ pc[t] = "apply"
       /\ lock[k] = t
       /\ store' = [store EXCEPT ![k] = o.entry]
       /\ lock' = [lock EXCEPT ![k] = NoThread]
       /\ lastWrite' = IF workload \in Traced /\ o.result # Panic /\ Wrote(store[k], cmd[t])
                       THEN [lastWrite EXCEPT ![k] = [cmd |-> cmd[t], now |-> clock]]
                       ELSE lastWrite
       /\ Return(t, cmd[t], store[k], o.result, o.entry)
       /\ UNCHANGED <<netVars, build, clock, via, workload, calls, ops, initial>>

\* the clock moves on (StdClock), whatever the callers are doing
Advance(d) ==
    /\ clock + d <= MaxClock
    /\ clock' = clock + d
    /\ configs' = IF workload = "lin"
                  THEN LinClosure(configs, Pending(pc), cmd, clock + d,
                                  Cardinality(Pending(pc)))
                  ELSE configs
    /\ UNCHANGED <<netVars, build, store, lock, mutex, via, workload, pc, cmd, calls, ops, seen, last,
                   lastWrite, hist, initial>>

Next ==
    \/ \E t \in Threads : \E c \in AnyCommands \cup LinCommands \cup EdgeCommands \cup
                                   StrlenCommands \cup MixCommands \cup IsoCommands \cup
                                   {Set("k1", V42, NoExpiration, FALSE, IfNotExists)} :
           Invoke(t, c)
    \/ \E t \in Threads : ExpireStep(t)
    \/ \E t \in Threads : ReadStep(t)
    \/ \E t \in Threads : EntryStep(t)
    \/ \E t \in Threads : ApplyStep(t)
    \/ \E d \in AdvanceSteps : Advance(d)

\* ------------------------------------------------------- specifications
StartEngine(v, w, st, i) ==
    /\ store = st
    /\ clock = StartClock
    /\ lock = [k \in Keys |-> NoThread]
    /\ mutex = NoThread
    /\ via = v
    /\ workload = w
    /\ pc = [t \in Threads |-> "idle"]
    /\ cmd = [t \in Threads |-> NoCommand]
    /\ calls = [t \in Threads |-> 0]
    /\ ops = 0
    /\ seen = [t \in Threads |-> NoSeen]
    /\ last = NoCall
    /\ lastWrite = [k \in Keys |-> NoWrite]
    /\ hist = EmptyBag
    /\ initial = i
    /\ build \in (IF w \in {"edge", "length"} THEN Builds ELSE {"release"})
    /\ configs = IF w = "lin"
                 THEN {[st |-> st, lin |-> [t \in Threads |-> NoResult]]}
                 ELSE {}

\* the connections of the server: one to fail, one to go on being served
Connections == {1, 2}
NotParsed == [done |-> FALSE, ok |-> FALSE, cmd |-> NoCommand, msg |-> ""]
Parsed(r) == [done |-> TRUE, ok |-> r.ok, cmd |-> r.cmd, msg |-> r.msg]
\* run_cmd has returned nothing yet
NoReply == resp_Value("None", <<>>, "", 0, <<>>, <<>>)
\* pending: the reply that the task is writing
NoConn == [status |-> "none", peer |-> "open", inbox |-> <<>>, sent |-> <<>>, outbox |-> <<>>,
           pending |-> NoReply]

\* run_cmd has returned nothing yet, and nothing is in the stream
CodecIdle ==
    /\ response = NoReply
    /\ bytes = <<>>
    /\ written = <<>>
    /\ got = <<>>

\* no connection yet, nothing to decode
NetIdle ==
    /\ wire = resp_Null
    /\ parsed = NotParsed
    /\ conn = [t \in Connections |-> NoConn]
    /\ accepting = TRUE
    /\ CodecIdle

Start(v, w, st, i) == NetIdle /\ StartEngine(v, w, st, i)

Empty == [k \in Keys |-> Vacant]

\* the server: every call goes through the engine mutex of server.rs
Init == Start("server", "any", Empty, 0)
Spec == Init /\ [][Next]_vars

\* test_concurrent_sets_with_nx (acceptance.rs:95-141)
InitNX == \E v \in {"engine", "server"} : Start(v, "nx", Empty, 0)
SpecNX == InitNX /\ [][Next]_vars

\* test_concurrent_incrs (acceptance.rs:67-93)
InitIncr ==
    \E v \in {"engine", "server"} : \E i \in InitialValues :
        Start(v, "incr", [k \in Keys |-> new_perpetual(to_string(i))], i)
SpecIncr == InitIncr /\ [][Next]_vars

\* parallel callers of one engine, with the history checked against AtomicCall
InitLin == \E v \in {"engine", "server"} : Start(v, "lin", Empty, 0)
SpecLin == InitLin /\ [][Next]_vars

\* one connection after the other increments a counter that starts absent
InitSeq == Start("server", "seq", Empty, 0)
SpecSeq == InitSeq /\ [][Next]_vars

\* the server with inputs at the edges of i64 and of the clock, in either build
InitEdge == Start("server", "edge", Empty, 0)
SpecEdge == InitEdge /\ [][Next]_vars

\* the server with strings of every length, read back by Get and by Strlen
InitStrlen == Start("server", "strlen", Empty, 0)
SpecStrlen == InitStrlen /\ [][Next]_vars

\* parallel callers on two keys, one of the calls being one that panics
InitMix == \E v \in {"engine", "server"} : Start(v, "mix", Empty, 0)
SpecMix == InitMix /\ [][Next]_vars

\* the steps of a call that has begun
Step(t) == ExpireStep(t) \/ ReadStep(t) \/ EntryStep(t) \/ ApplyStep(t)

\* the same callers under fair scheduling: a thread that can take a step of its
\* call does take it (the threads of the operating system, std::sync::Mutex and
\* the bucket locks of scc, none of which holds back a thread for ever when no
\* other thread keeps the lock)
SpecMixFair == SpecMix /\ \A t \in Clients : WF_vars(Step(t))

\* the server, with commands on two keys
InitIso == Start("server", "iso", Empty, 0)
SpecIso == InitIso /\ [][Next]_vars

\* ------------------------------------------- server.rs : the connections
\* what a client writes: a frame that resp::parse reads as a Value, bytes that it
\* refuses (invalid prefix, invalid length, invalid UTF-8), and, before it goes
\* away, the beginning of a frame
ValueFrame(v) == [kind |-> "value", value |-> v]
Garbage == [kind |-> "garbage", value |-> resp_Null]
Partial == [kind |-> "partial", value |-> resp_Null]

Bulks(tokens) == [i \in DOMAIN tokens |-> resp_BulkString(tokens[i])]
Frames ==
    {ValueFrame(resp_Array(Bulks(tokens))) :
        tokens \in {<<<<"G", "E", "T">>, <<"k", "1">>>>,
                    <<<<"I", "N", "C", "R">>, <<"k", "1">>>>,
                    <<<<"S", "E", "T">>, <<"k", "1">>, <<"9">>, <<"E", "X">>, <<"-", "1">>>>,
                    <<<<"P", "I", "N", "G">>>>}}
    \cup {Garbage}

\* faulty variant: Client removes the entries that have expired
call_ClientPurges(st, c, now) ==
    IF c.op = "Client"
    THEN [store |-> [k \in DOMAIN st |-> remove_if(st[k], now)], result |-> Ok]
    ELSE LET o == AtomicCall(st[c.key], c, now)
         IN [store |-> [st EXCEPT ![c.key] = o.entry], result |-> o.result]

\* scc.rs:57-169, called with the engine mutex held: one call at a time
call(st, c, now) ==
    IF c.op = "Client" THEN [store |-> st, result |-> Ok]
    ELSE LET o == AtomicCall(st[c.key], c, now)
         IN [store |-> [st EXCEPT ![c.key] = o.entry], result |-> o.result]

\* faulty variant: a panic of a task is resumed in the executor's run, which
\* ends start, the accept loop and every task with it
TaskPanic_Propagates(t, why) ==
    /\ conn' = [u \in Connections |->
                  IF u = t THEN [conn[u] EXCEPT !.status = why, !.inbox = Tail(@)]
                  ELSE IF conn[u].status = "open" THEN [conn[u] EXCEPT !.status = "dropped"]
                  ELSE conn[u]]
    /\ accepting' = FALSE

\* server.rs:19-20: the task of a connection unwraps the Err of handle_client, or
\* panics inside it. The task is spawned on the executor and detached: the
\* executor catches the panic of a task and drops it with the task, so that
\* nothing but the task ends
TaskPanic(t, why) ==
    /\ conn' = [conn EXCEPT ![t].status = why, ![t].inbox = Tail(@)]
    /\ accepting' = accepting

\* faulty variant: the reply is written while the MutexGuard is still alive, so
\* that a failed write unwinds through the guard
WriteReply_GuardHeld(t, reply) ==
    \/ /\ conn[t].peer = "open"
       /\ conn' = [conn EXCEPT ![t].inbox = Tail(@), ![t].outbox = Append(@, reply)]
       /\ UNCHANGED <<accepting, mutex>>
    \/ /\ conn[t].peer = "closed"
       /\ conn' = [conn EXCEPT ![t].inbox = Tail(@)]
       /\ UNCHANGED <<accepting, mutex>>
    \/ /\ conn[t].peer = "closed"
       /\ TaskPanic(t, "write_error")
       /\ mutex' = t

\* server.rs:37-38: serialise and flush, after the MutexGuard of line 36 has
\* been dropped. Writing to a socket whose peer has gone fails, or is accepted
\* by the system and lost
WriteReply(t, reply) ==
    \/ /\ conn[t].peer = "open"
       /\ conn' = [conn EXCEPT ![t].inbox = Tail(@), ![t].outbox = Append(@, reply)]
       /\ UNCHANGED <<accepting, mutex>>
    \/ /\ conn[t].peer = "closed"
       /\ conn' = [conn EXCEPT ![t].inbox = Tail(@)]
       /\ UNCHANGED <<accepting, mutex>>
    \/ /\ conn[t].peer = "closed"
       /\ TaskPanic(t, "write_error")
       /\ UNCHANGED mutex

\* server.rs:17-20: accept, and spawn the task of the connection
Accept(t) ==
    /\ accepting
    /\ conn[t].status = "none"
    /\ conn' = [conn EXCEPT ![t].status = "open"]
    /\ UNCHANGED <<engineVars, codecVars, wire, parsed, accepting>>

\* how many frames the clients have written in all
RECURSIVE SumSent(_)
SumSent(S) ==
    IF S = {} THEN 0
    ELSE LET t == CHOOSE u \in S : TRUE IN Len(conn[t].sent) + SumSent(S \ {t})
FramesSent == SumSent(Connections)

\* the client writes one more frame, without waiting for any reply
Send(t, f) ==
    /\ conn[t].status # "none"
    /\ conn[t].peer = "open"
    /\ FramesSent < MaxFrames
    /\ conn' = [conn EXCEPT ![t].inbox = Append(@, f), ![t].sent = Append(@, f)]
    /\ UNCHANGED <<engineVars, codecVars, wire, parsed, accepting>>

\* the client goes away, at the end of a frame or in the middle of one
Close(t, midframe) ==
    /\ conn[t].status # "none"
    /\ conn[t].peer = "open"
    /\ conn' = [conn EXCEPT ![t].peer = "closed",
                            ![t].inbox = IF midframe THEN Append(@, Partial) ELSE @]
    /\ UNCHANGED <<engineVars, codecVars, wire, parsed, accepting>>

\* server.rs:33-41: has_data_left is false at the end of the stream
ServeEof(t) ==
    /\ conn[t].status = "open"
    /\ conn[t].inbox = <<>> /\ conn[t].peer = "closed"
    /\ conn' = [conn EXCEPT ![t].status = "done"]
    /\ UNCHANGED <<engineVars, codecVars, wire, parsed, accepting>>

\* server.rs:33-34 and resp.rs:14-54: resp::parse returns an Err, which
\* handle_client returns and the task unwraps
ServeProtocolError(t) ==
    /\ conn[t].status = "open"
    /\ conn[t].inbox # <<>>
    /\ \/ Head(conn[t].inbox).kind = "garbage"
       \/ Head(conn[t].inbox).kind = "partial" /\ conn[t].peer = "closed"
    /\ TaskPanic(t, "protocol_error")
    /\ UNCHANGED <<engineVars, codecVars, wire, parsed>>

\* server.rs:33-38, 44-49: one turn of the loop of handle_client on a frame
\* that resp::parse reads as a Value
Serve(t) ==
    LET f == Head(conn[t].inbox)
        d == parse_command(f.value)
        o == call(store, d.cmd, clock)
    IN /\ conn[t].status = "open"
       /\ conn[t].inbox # <<>>
       /\ f.kind = "value"
       /\ IF mutex # NoThread
          THEN \* engine.lock().unwrap() on a poisoned mutex
               /\ TaskPanic(t, "lock_poisoned")
               /\ UNCHANGED <<store, mutex>>
          ELSE IF ~d.ok
          THEN /\ WriteReply(t, resp_Error("ERR " \o d.msg))
               /\ UNCHANGED store
          ELSE /\ store' = o.store
               /\ IF o.result = Panic
                  THEN \* the guard is dropped while unwinding: the mutex is poisoned
                       /\ mutex' = t
                       /\ TaskPanic(t, "engine_panic")
                  ELSE WriteReply(t, serialise_result(o.result))
       /\ UNCHANGED <<clock, lock, via, workload, pc, cmd, calls, ops, seen, last,
                      lastWrite, hist, initial, configs, build, wire, parsed, codecVars>>

NextConn ==
    \/ \E t \in Connections : Accept(t)
    \/ \E t \in Connections : \E f \in Frames : Send(t, f)
    \/ \E t \in Connections : \E midframe \in BOOLEAN : Close(t, midframe)
    \/ \E t \in Connections : ServeEof(t)
    \/ \E t \in Connections : ServeProtocolError(t)
    \/ \E t \in Connections : Serve(t)

\* the server and its connections
InitConn == Start("server", "conn", Empty, 0)
SpecConn == InitConn /\ [][NextConn]_vars

\* ---------------------------------------------- parse_command, on its own
\* the tokens of the arrays: command names in upper case, a name in lower case,
\* a name that is no command, and what may follow SET key value
CommandNames ==
    {<<"G", "E", "T">>, <<"S", "E", "T">>, <<"I", "N", "C", "R">>, <<"T", "T", "L">>,
     <<"A", "P", "P", "E", "N", "D">>, <<"S", "T", "R", "L", "E", "N">>,
     <<"C", "L", "I", "E", "N", "T">>}
FirstTokens == CommandNames \cup {<<"g", "e", "t">>, <<"P", "I", "N", "G">>}
ExpirationNames ==
    {<<"E", "X">>, <<"P", "X">>, <<"E", "X", "A", "T">>, <<"P", "X", "A", "T">>,
     <<"K", "E", "E", "P", "T", "T", "L">>}
ConditionNames == {<<"N", "X">>, <<"X", "X">>}
OptionNames == ExpirationNames \cup ConditionNames \cup {<<"G", "E", "T">>}
OptionTokens == OptionNames \cup {<<"5">>, <<"-", "1">>}
\* an element that is no bulk string
NonBulk == resp_Integer(1)

\* the elements that may come next in an array
Elements(items) ==
    LET p == Len(items) + 1
        bulk == \A i \in DOMAIN items : items[i].type = "BulkString"
    IN CASE p = 1 -> {resp_BulkString(t) : t \in FirstTokens} \cup {NonBulk}
         [] p = 2 -> {resp_BulkString(<<"k", "1">>), NonBulk}
         [] p = 3 -> {resp_BulkString(<<"9">>), NonBulk}
         [] OTHER -> IF bulk /\ items[1].s = <<"S", "E", "T">> /\ p <= 3 + MaxOptionTokens
                     THEN {resp_BulkString(t) : t \in OptionTokens} \cup {NonBulk}
                     ELSE {}

AllElements == {resp_BulkString(t) : t \in FirstTokens \cup OptionTokens \cup {<<"k", "1">>, <<"9">>}}
               \cup {NonBulk}

\* the values parse_command is given to start with: the empty array, and values
\* that are no array
Wires == {resp_Array(<<>>), resp_BulkString(<<"G", "E", "T">>), resp_Null,
          resp_SimpleString("GET")}

\* resp.rs:18-25: one more element is read into the array
Push(x) ==
    /\ ~parsed.done
    /\ wire.type = "Array"
    /\ x \in Elements(wire.items)
    /\ wire' = resp_Array(Append(wire.items, x))
    /\ UNCHANGED <<engineVars, codecVars, parsed, conn, accepting>>

\* resp_cmd.rs:7-22, as called at server.rs:45
Decode ==
    /\ ~parsed.done
    /\ parsed' = Parsed(parse_command(wire))
    /\ UNCHANGED <<engineVars, codecVars, wire, conn, accepting>>

NextParse ==
    \/ \E x \in AllElements : Push(x)
    \/ Decode

InitParse ==
    /\ StartEngine("server", "parse", Empty, 0)
    /\ wire \in Wires
    /\ parsed = NotParsed
    /\ conn = [t \in Connections |-> NoConn]
    /\ accepting = TRUE
    /\ CodecIdle
SpecParse == InitParse /\ [][NextParse]_vars

\* ---------------------------------------------------- run_cmd, on its own
\* the values run_cmd is given: commands that decode, for every Result of the
\* engine and with the empty string for a key, commands that do not decode, and
\* a value that is no array
RunTokens ==
    {<<<<"G", "E", "T">>, <<"k", "1">>>>,
     <<<<"S", "E", "T">>, <<"k", "1">>, <<"a">>>>,
     <<<<"S", "E", "T">>, <<>>, <<"a">>>>,
     <<<<"S", "E", "T">>, <<"k", "1">>, <<"9">>, <<"P", "X">>, <<"5", "0", "0">>>>,
     <<<<"S", "E", "T">>, <<"k", "1">>, <<"9">>, <<"E", "X">>, <<"-", "1">>>>,
     <<<<"I", "N", "C", "R">>, <<"k", "1">>>>,
     <<<<"T", "T", "L">>, <<"k", "1">>>>,
     <<<<"C", "L", "I", "E", "N", "T">>>>,
     <<<<"C", "L", "I", "E", "N", "T">>, <<"S", "E", "T", "N", "A", "M", "E">>, <<"a">>>>,
     <<<<"P", "I", "N", "G">>>>,
     <<<<"G", "E", "T">>>>}
RunValues == {resp_Array(Bulks(tokens)) : tokens \in RunTokens} \cup {resp_Null}

\* server.rs:44-49
run_cmd(st, command, now) ==
    LET d == parse_command(command)
        o == call(st, d.cmd, now)
    IN IF ~d.ok
       THEN [store |-> st, result |-> NoResult, reply |-> resp_Error("ERR " \o d.msg)]
       ELSE [store |-> o.store, result |-> o.result,
             reply |-> IF o.result = Panic THEN NoReply ELSE serialise_result(o.result)]

\* run_cmd is called on a value and returns its reply, or panics inside the
\* engine. last keeps the command and the Result of the engine, if it was called
RunCmd(v) ==
    LET r == run_cmd(store, v, clock)
    IN /\ pc[Main] = "idle"
       /\ ops < MaxOps
       /\ ops' = ops + 1
       /\ wire' = v
       /\ parsed' = Parsed(parse_command(v))
       /\ store' = r.store
       /\ response' = r.reply
       /\ last' = [NoCall EXCEPT !.cmd = parsed'.cmd, !.now = clock, !.result = r.result]
       /\ pc' = [pc EXCEPT ![Main] = IF r.result = Panic THEN "panicked" ELSE "idle"]
       /\ UNCHANGED <<clock, lock, mutex, via, workload, cmd, calls, seen, lastWrite, hist,
                      initial, configs, build, conn, accepting, bytes, written, got>>

NextRunCmd ==
    \/ \E v \in RunValues : RunCmd(v)
    \/ \E d \in AdvanceSteps : Advance(d)

\* redis.rs:10-11: any String is a Key, the empty one too
EmptyKey == ""
InitRunCmd == Start("engine", "run_cmd", [k \in Keys \cup {EmptyKey} |-> Vacant], 0)
SpecRunCmd == InitRunCmd /\ [][NextRunCmd]_vars

\* ------------------------------- server.rs : the await points of a connection
\* the frames of this scenario: a command, a command that panics in the engine,
\* and bytes that are no frame
AwaitFrames ==
    {ValueFrame(resp_Array(Bulks(tokens))) :
        tokens \in {<<<<"I", "N", "C", "R">>, <<"k", "1">>>>,
                    <<<<"S", "E", "T">>, <<"k", "1">>, <<"9">>, <<"E", "X">>, <<"-", "1">>>>}}
    \cup {Garbage}

\* faulty variant: the guard is bound to a variable that lives until the end of
\* the turn of the loop, across serialise and flush
Await_GuardKept(t, value) ==
    /\ conn' = [conn EXCEPT ![t].inbox = Tail(@), ![t].pending = value,
                            ![t].status = "writing"]
    /\ accepting' = accepting
    /\ mutex' = t

\* server.rs:36-37: run_cmd has returned; the MutexGuard, a temporary of the
\* statement of line 36, is dropped at its end, and the task goes on to
\* serialise(..).await with the reply
Await(t, value) ==
    /\ conn' = [conn EXCEPT ![t].inbox = Tail(@), ![t].pending = value,
                            ![t].status = "writing"]
    /\ accepting' = accepting
    /\ mutex' = NoThread

\* server.rs:33-36: has_data_left and resp::parse have returned a Value; the task
\* locks the engine and runs the command, without any await
Dispatch(t) ==
    LET f == Head(conn[t].inbox)
        r == run_cmd(store, f.value, clock)
    IN /\ conn[t].status = "open"
       /\ conn[t].inbox # <<>>
       /\ f.kind = "value"
       /\ IF mutex # NoThread
          THEN \* engine.lock().unwrap() on a poisoned mutex
               /\ TaskPanic(t, "lock_poisoned")
               /\ UNCHANGED <<store, mutex>>
          ELSE /\ store' = r.store
               /\ IF r.result = Panic
                  THEN \* the guard is dropped while unwinding: the mutex is poisoned
                       /\ mutex' = t
                       /\ TaskPanic(t, "engine_panic")
                  ELSE Await(t, r.reply)
       /\ UNCHANGED <<clock, lock, via, workload, pc, cmd, calls, ops, seen, last,
                      lastWrite, hist, initial, configs, build, wire, parsed, codecVars>>

\* server.rs:37-38: serialise(..).await and flush().await complete, or fail
\* because the peer has gone
Flush(t) ==
    /\ conn[t].status = "writing"
    /\ \/ /\ conn[t].peer = "open"
          /\ conn' = [conn EXCEPT ![t].outbox = Append(@, conn[t].pending),
                                  ![t].pending = NoReply, ![t].status = "open"]
       \/ /\ conn[t].peer = "closed"
          /\ conn' = [conn EXCEPT ![t].pending = NoReply, ![t].status = "open"]
       \/ /\ conn[t].peer = "closed"
          /\ conn' = [conn EXCEPT ![t].pending = NoReply, ![t].status = "write_error"]
    /\ UNCHANGED <<engineVars, codecVars, wire, parsed, accepting>>

NextAwait ==
    \/ \E t \in Connections : Accept(t)
    \/ \E t \in Connections : \E f \in AwaitFrames : Send(t, f)
    \/ \E t \in Connections : \E midframe \in BOOLEAN : Close(t, midframe)
    \/ \E t \in Connections : ServeEof(t)
    \/ \E t \in Connections : ServeProtocolError(t)
    \/ \E t \in Connections : Dispatch(t)
    \/ \E t \in Connections : Flush(t)

InitAwait == Start("server", "await", Empty, 0)
SpecAwait == InitAwait /\ [][NextAwait]_vars

\* --------------------------------------- parse and serialise, on their own
\* the values that are serialised: the values put together from Leaves
Leaves ==
    {resp_BulkString(<<>>), resp_BulkString(<<"a">>), resp_BulkString(<<CR, LF, "$">>),
     resp_Array(<<>>), resp_Null, resp_SimpleString("OK"), resp_Error("ERR x"),
     resp_Integer(0), resp_Integer(-12), resp_WideInteger(I64MaxDigits)}

\* how many values a value is made of, itself included
RECURSIVE Size(_), SizeAll(_)
Size(v) == 1 + SizeAll(v.items)
SizeAll(items) == IF items = <<>> THEN 0 ELSE Size(Head(items)) + SizeAll(Tail(items))

\* resp.rs:8: the value becomes the only element of an array
Nest ==
    /\ Size(wire) < MaxSize
    /\ wire' = resp_Array(<<wire>>)
    /\ UNCHANGED <<engineVars, codecVars, parsed, conn, accepting>>

\* resp.rs:8: the array is given one more element, first or last
Extend(x, front) ==
    /\ wire.type = "Array"
    /\ Size(wire) < MaxSize
    /\ wire' = resp_Array(IF front THEN <<x>> \o wire.items ELSE Append(wire.items, x))
    /\ UNCHANGED <<engineVars, codecVars, parsed, conn, accepting>>

\* resp.rs:56-96: serialise writes the value into the stream, after the values
\* written before it
Write ==
    /\ Len(written) < MaxWrites
    /\ bytes' = bytes \o serialise(wire)
    /\ written' = Append(written, wire)
    /\ UNCHANGED <<engineVars, wire, parsed, conn, accepting, response, got>>

\* server.rs:33-34 and resp.rs:14-34: there are bytes in the stream, and parse
\* reads a value from them. After an Err nothing more is read
ReadValue ==
    LET r == parse(bytes, build)
    IN /\ bytes # <<>>
       /\ got # <<>> => got[Len(got)].kind = "ok"
       /\ got' = Append(got, r)
       /\ bytes' = IF r.kind = "ok" THEN r.rest ELSE bytes
       /\ UNCHANGED <<engineVars, wire, parsed, conn, accepting, response, written>>

NextCodec ==
    \/ Nest
    \/ \E x \in Leaves : \E front \in BOOLEAN : Extend(x, front)
    \/ Write
    \/ ReadValue

InitCodec ==
    /\ StartEngine("engine", "codec", Empty, 0)
    /\ wire \in Leaves
    /\ parsed = NotParsed
    /\ conn = [t \in Connections |-> NoConn]
    /\ accepting = TRUE
    /\ CodecIdle
SpecCodec == InitCodec /\ [][NextCodec]_vars

\* ------------------------------------------------ parse_length, on its own
\* the bytes a peer may write where a length line is expected
LineBytes == {"1", "2", "-", "a", CR, LF}

\* the peer writes one more byte
Type(x) ==
    /\ got = <<>>
    /\ Len(bytes) < MaxLine
    /\ bytes' = Append(bytes, x)
    /\ written' = Append(written, x)
    /\ UNCHANGED <<engineVars, wire, parsed, conn, accepting, response, got>>

\* resp.rs:36-43: the peer has closed the stream and parse_length reads its line
ReadLength ==
    LET r == parse_length(bytes, build)
    IN /\ got = <<>>
       /\ got' = <<r>>
       /\ bytes' = IF r.kind = "ok" THEN r.rest ELSE bytes
       /\ UNCHANGED <<engineVars, wire, parsed, conn, accepting, response, written>>

NextLength ==
    \/ \E x \in LineBytes : Type(x)
    \/ ReadLength

InitLength == Start("engine", "length", Empty, 0)
SpecLength == InitLength /\ [][NextLength]_vars

\* ------------------------------------------------------------- the claims
Quiescent == \A t \in Threads : pc[t] = "idle"
TotalCalls == NumClients * MaxCalls

\* C1: per-key linearizability. Every history of calls and clock advances has
\* a sequential order, consistent with real time, in which each call is one
\* AtomicCall (eager-expire and read/update in one step) and returns what the
\* code returned; and once no call is pending the store is the one that order
\* leaves behind.
C1_Linearizable ==
    workload = "lin" =>
        /\ configs # {}
        /\ Quiescent => \E cf \in configs : cf.st = store

\* C2: NX under contention. Of the N*M parallel Set(k, v, IfNotExists) on a
\* fresh key exactly one returns Ok, every other returns Null, and the final
\* Get(k) returns BulkString(v).
C2_NxExactlyOneOk ==
    workload = "nx" =>
        /\ BagToSet(hist) \subseteq {Ok, Null}
        /\ CopiesIn(Ok, hist) <= 1
        /\ CopiesIn(Ok, hist) = 0 => CopiesIn(Null, hist) = 0
        /\ ClientsDone => /\ CopiesIn(Ok, hist) = 1
                          /\ CopiesIn(Null, hist) = TotalCalls - 1
        /\ last.cmd.op = "Get" => last.result = BulkString(V42)

C2_Witness ==
    /\ workload = "nx"
    /\ via = "engine"
    /\ ClientsDone
    /\ CopiesIn(Null, hist) = TotalCalls - 1
    /\ last.cmd.op = "Get"
    /\ last.result.tag = "BulkString"

\* C3: no lost increments. The N*M parallel Incr(k) on a key holding the
\* decimal integer initial return the N*M distinct integers initial+1 ..
\* initial+N*M, and the final Get(k) is the decimal string of initial + N*M.
C3_NoLostIncrements ==
    workload = "incr" =>
        /\ \A r \in BagToSet(hist) :
              /\ r.tag = "Integer"
              /\ r.n \in (initial + 1)..(initial + TotalCalls)
              /\ CopiesIn(r, hist) = 1
        /\ ClientsDone => BagToSet(hist) = {Integer(initial + i) : i \in 1..TotalCalls}
        /\ last.cmd.op = "Get" => last.result = BulkString(to_string(initial + TotalCalls))

C3_Witness ==
    /\ workload = "incr"
    /\ via = "engine"
    /\ ClientsDone
    /\ BagCardinality(hist) = TotalCalls
    /\ last.cmd.op = "Get"
    /\ last.result.tag = "BulkString"
    /\ Len(last.result.s) = 2

\* C4: expired entries are never observed. A Get (Strlen) that reads an entry
\* whose expires_at is <= the clock at the moment of the read reports the key
\* as absent: Null (Integer(0)), also when the clock advanced or another
\* caller wrote the key after the call's eager-expire step.
C4_ExpiredNeverObserved ==
    (/\ last.cmd.op \in {"Get", "Strlen"}
     /\ last.at.present
     /\ is_expired(last.at, last.now))
    => last.result = IF last.cmd.op = "Get" THEN Null ELSE Integer(0)

\* what the call that returned last found: no entry, or one already expired
\* at the clock value the call's eager-expire step read
PreAbsent == ~last.pre.present \/ is_expired(last.pre, last.preClock)
PreLive == ~PreAbsent

\* what a Get of the same key returns when it follows the last call at once
FollowingGet ==
    ReadEntry(remove_if(last.post, last.now), Get(last.cmd.key), last.now)

\* the instant at which the entry written by the relative Set w expires
Deadline(w) ==
    w.now + (IF w.cmd.expiration.kind = "Seconds" THEN MillisPerSec ELSE 1) * w.cmd.expiration.n

RelativeSet(w) ==
    /\ w.cmd.op = "Set"
    /\ w.cmd.expiration.kind \in {"Seconds", "Milliseconds"}
    /\ w.cmd.expiration.n > 0

\* C5: expiration boundary. After Set(k, v, Seconds(t) or Milliseconds(t)),
\* t > 0, executed at clock T and with no later write to k, a Get(k) at clock
\* T' returns BulkString(v) when T' < T + t and Null when T' >= T + t, and a
\* Ttl(k) at T' >= T + t returns -2. T is the clock value the Set added t to,
\* T' the clock value the Get or Ttl read for its eager-expire step.
C5_ExpirationBoundary ==
    \A k \in Keys :
        (/\ last.cmd.key = k
         /\ last.cmd.op \in {"Get", "Ttl"}
         /\ RelativeSet(lastWrite[k]))
        => /\ last.preClock >= lastWrite[k].now
           /\ IF last.preClock < Deadline(lastWrite[k])
              THEN last.cmd.op = "Get" => last.result = BulkString(lastWrite[k].cmd.value)
              ELSE last.result = IF last.cmd.op = "Get" THEN Null ELSE Integer(-2)

\* the Get runs at the very instant T + t of a Set(k, v, Seconds(1))
C5_Witness ==
    /\ last.cmd = Get("k1")
    /\ lastWrite["k1"].cmd.op = "Set"
    /\ lastWrite["k1"].cmd.expiration = Seconds(1)
    /\ last.preClock = lastWrite["k1"].now + 1000
    /\ last.result = Null

C7_SetIfExists ==
    (last.cmd.op = "Set" /\ last.cmd.condition = IfExists)
    => IF PreAbsent
       THEN /\ last.result = Null
            /\ ~last.post.present
            /\ FollowingGet = Null
       ELSE /\ last.post.present
            /\ last.post.value = last.cmd.value
            /\ last.result = IF last.cmd.get THEN BulkString(last.pre.value) ELSE Ok

\* an XX Set finds an entry that is there but expired
C7_Witness ==
    /\ last.cmd.op = "Set"
    /\ last.cmd.condition = IfExists
    /\ last.pre.present
    /\ is_expired(last.pre, last.preClock)
    /\ last.result = Null

\* whether the condition of the last Set let it write
Permitted ==
    CASE last.cmd.condition = IfNotExists -> PreAbsent
      [] last.cmd.condition = IfExists -> PreLive
      [] OTHER -> TRUE

\* C8 as stated: for every Set with get, the result is BulkString(prev) iff
\* the key held a non-expired value prev just before the call, Null otherwise;
\* and whenever the condition permits the write, the new value is the one a
\* following Get returns.
C8_SetGet_AsStated ==
    (last.cmd.op = "Set" /\ last.cmd.get)
    => /\ last.result = IF PreLive THEN BulkString(last.pre.value) ELSE Null
       /\ Permitted => FollowingGet = BulkString(last.cmd.value)

\* C8 amended: for every Set with get that its condition permits, the result
\* is BulkString(prev) iff the key held a non-expired value prev just before
\* the call, Null otherwise; a Set with get that its condition rejects returns
\* Null, also when a previous value exists; and whenever the condition permits
\* the write, the new value is stored, and is the one a following Get returns
\* unless the new entry's own expiration has already passed.
C8_SetGet ==
    (last.cmd.op = "Set" /\ last.cmd.get)
    => IF Permitted
       THEN /\ last.result = IF PreLive THEN BulkString(last.pre.value) ELSE Null
            /\ last.post.present
            /\ last.post.value = last.cmd.value
            /\ ~is_expired(last.post, last.now)
                  => FollowingGet = BulkString(last.cmd.value)
       ELSE /\ last.result = Null
            /\ last.post = remove_if(last.pre, last.preClock)

\* a permitted Set with get returns the previous, unexpired value
C8_Witness ==
    /\ last.cmd.op = "Set"
    /\ last.cmd.get
    /\ last.cmd.condition = IfExists
    /\ PreLive
    /\ last.pre.expires_at.some
    /\ last.result.tag = "BulkString"
    /\ last.result.s # last.cmd.value

PlainSet(c) ==
    /\ c.op = "Set"
    /\ c.expiration = NoExpiration
    /\ c.condition = NoCondition
    /\ ~c.get

\* C9: Get/Set round trip. Set(k, v) without expiration and condition returns
\* Ok whatever entry k had before, and from then until the next write to k
\* every Get(k), at every later clock value, returns BulkString(v).
C9_GetSetRoundTrip ==
    /\ PlainSet(last.cmd) => last.result = Ok
    /\ \A k \in Keys :
          (last.cmd = Get(k) /\ PlainSet(lastWrite[k].cmd))
          => last.result = BulkString(lastWrite[k].cmd.value)

\* the Get runs a full second after the Set
C9_Witness ==
    /\ last.cmd = Get("k1")
    /\ PlainSet(lastWrite["k1"].cmd)
    /\ last.preClock >= lastWrite["k1"].now + 1000
    /\ last.result.tag = "BulkString"

\* C10: absence. On a key never written, or whose entry is expired at the
\* current clock, Get returns Null, Strlen Integer(0) and Ttl Integer(-2), and
\* the call has removed the expired entry from the store before it answers.
C10_Absence ==
    (last.cmd.op \in ReadOps /\ PreAbsent)
    => /\ last.result = CASE last.cmd.op = "Get" -> Null
                          [] last.cmd.op = "Strlen" -> Integer(0)
                          [] OTHER -> Integer(-2)
       /\ ~last.at.present
       /\ ~last.post.present

\* a Strlen finds an expired entry
C10_Witness ==
    /\ last.cmd.op = "Strlen"
    /\ last.pre.present
    /\ is_expired(last.pre, last.preClock)
    /\ last.result = Integer(0)
    /\ ~last.post.present

\* C11: TTL value. Ttl(k) returns -1 for a present entry without expiration;
\* for an entry set with Seconds(t) at clock T and read at clock T + d it
\* returns the whole seconds of t - d when 0 <= d < t (0 for less than a
\* second) and -2 when d >= t. T + d is the clock value against which Ttl
\* computes the remaining time.
C11_TtlValue ==
    \A k \in Keys :
        last.cmd = Ttl(k)
        => /\ (last.at.present /\ ~last.at.expires_at.some) => last.result = Integer(-1)
           /\ (lastWrite[k].cmd.op = "Set" /\ lastWrite[k].cmd.expiration.kind = "Seconds")
              => LET t == lastWrite[k].cmd.expiration.n * MillisPerSec
                     d == last.now - lastWrite[k].now
                 IN last.result = IF d < t THEN Integer((t - d) \div MillisPerSec)
                                  ELSE Integer(-2)

\* C12: a Set without expiration clears any prior expiration. The entry it
\* stores is perpetual whatever expires_at the key had, so until the next
\* write Get(k) returns BulkString(v2) at every later clock and Ttl(k) -1.
C12_SetClearsExpiration ==
    /\ (last.cmd.op = "Set" /\ last.cmd.expiration = NoExpiration /\ Permitted)
       => last.post = new_perpetual(last.cmd.value)
    /\ \A k \in Keys :
          (lastWrite[k].cmd.op = "Set" /\ lastWrite[k].cmd.expiration = NoExpiration)
          => /\ last.cmd = Get(k) => last.result = BulkString(lastWrite[k].cmd.value)
             /\ last.cmd = Ttl(k) => last.result = Integer(-1)

\* a Set without expiration replaces a live entry that had a deadline
C12_Witness ==
    /\ last.cmd.op = "Set"
    /\ last.cmd.expiration = NoExpiration
    /\ PreLive
    /\ last.pre.expires_at.some
    /\ last.post.present
    /\ ~last.post.expires_at.some

\* C13: KEEPTTL. A Set with Keep on a present, non-expired key replaces the
\* value and leaves expires_at as it was, so a Get at the original instant
\* finds the key expired; on an absent or expired key it creates a perpetual
\* entry.
C13_KeepTtl ==
    (last.cmd.op = "Set" /\ last.cmd.expiration = Keep /\ Permitted)
    => IF PreLive
       THEN /\ last.post = Expirable(last.cmd.value, last.pre.expires_at)
            /\ last.pre.expires_at.some
               => ReadEntry(remove_if(last.post, last.pre.expires_at.t),
                            Get(last.cmd.key), last.pre.expires_at.t) = Null
       ELSE last.post = new_perpetual(last.cmd.value)

\* a Set with Keep puts a new value under a deadline that is still ahead
C13_Witness ==
    /\ last.cmd.op = "Set"
    /\ last.cmd.expiration = Keep
    /\ PreLive
    /\ last.pre.expires_at.some
    /\ last.pre.value # last.cmd.value
    /\ last.post.value = last.cmd.value
    /\ last.post.expires_at = last.pre.expires_at

\* C15: Incr on an expired key restarts the counter. An Incr that finds the
\* entry expired at its clock value (or finds none) ignores the old value,
\* inserts "1" without expiration and returns Integer(1).
C15_IncrRestartsExpired ==
    (last.cmd.op = "Incr" /\ PreAbsent)
    => /\ last.result = Integer(1)
       /\ last.post = new_perpetual(<<"1">>)

\* the Incr finds the expired counter 9
C15_Witness ==
    /\ last.cmd.op = "Incr"
    /\ last.pre.present
    /\ last.pre.value = <<"9">>
    /\ is_expired(last.pre, last.preClock)
    /\ last.result = Integer(1)

\* C16: Incr on a present, non-expired key whose value does not parse as a
\* decimal i64 returns Error and leaves the entry as it was, value and
\* expires_at, so a following Get and Ttl answer as they would have before.
C16_IncrParseError ==
    (last.cmd.op = "Incr" /\ PreLive /\ ~ParseI64(last.pre.value).ok)
    => /\ last.result = Error("invalid digit found in string")
       /\ last.post = last.pre
       /\ FollowingGet = ReadEntry(remove_if(last.pre, last.now), Get(last.cmd.key), last.now)

\* the Incr finds "9a" under a deadline
C16_Witness ==
    /\ last.cmd.op = "Incr"
    /\ PreLive
    /\ last.pre.value = <<"9", "a">>
    /\ last.pre.expires_at.some
    /\ last.result.tag = "Error"

\* C20: Append. On a present, non-expired key the value becomes old value
\* followed by v, the result is the length of the new value and expires_at is
\* unchanged; on an absent or expired key v is inserted as a perpetual entry,
\* the result is the length of v and an expired old value is discarded.
C20_Append ==
    (last.cmd.op = "Append")
    => IF PreLive
       THEN /\ last.post = Expirable(last.pre.value \o last.cmd.value, last.pre.expires_at)
            /\ last.result = Integer(Len(last.pre.value) + Len(last.cmd.value))
       ELSE /\ last.post = new_perpetual(last.cmd.value)
            /\ last.result = Integer(Len(last.cmd.value))

\* the Append extends a value that has a deadline
C20_Witness ==
    /\ last.cmd.op = "Append"
    /\ PreLive
    /\ last.pre.expires_at.some
    /\ last.result = Integer(2)
    /\ last.post.expires_at = last.pre.expires_at

\* the Append finds an expired value and starts afresh
C20_WitnessExpired ==
    /\ last.cmd.op = "Append"
    /\ last.pre.present
    /\ is_expired(last.pre, last.preClock)
    /\ last.result = Integer(1)

\* C14: Incr sequence. Starting from an absent key and with no other writer,
\* the i-th of N consecutive Incr(k) returns Integer(i), and the Get(k) after
\* them returns the decimal string of N.
C14_IncrSequence ==
    workload = "seq" =>
        /\ last.cmd.op = "Incr" => last.result = Integer(ops)
        /\ last.cmd.op = "Get" => last.result = BulkString(to_string(MaxSeq))

\* the Get after all MaxSeq Incr has returned a string of two digits
C14_Witness ==
    /\ workload = "seq"
    /\ ops = MaxSeq + 1
    /\ last.cmd.op = "Get"
    /\ last.result.tag = "BulkString"
    /\ Len(last.result.s) = 2

\* C17: Incr overflow. Incr on a key holding the decimal string of i64::MAX
\* returns Error, does not wrap to a negative number, does not abort the call,
\* and leaves the entry unchanged.
C17_IncrOverflow ==
    (last.cmd.op = "Incr" /\ PreLive /\ last.pre.value = I64MaxDigits)
    => /\ last.result.tag = "Error"
       /\ last.post = last.pre

\* C18: zero or negative relative expiration. Set(k, v, Seconds(n)) and
\* Set(k, v, Milliseconds(n)) with n <= 0 return normally and store an entry
\* whose expires_at is <= the clock value of the Set, so that the next
\* operation on k finds k absent and removes the entry.
C18_NonPositiveExpiration ==
    (/\ last.cmd.op = "Set"
     /\ last.cmd.expiration.kind \in {"Seconds", "Milliseconds"}
     /\ last.cmd.expiration.n <= 0
     /\ Permitted)
    => /\ last.result.tag \in {"Ok", "Null", "BulkString"}
       /\ last.post.present
       /\ last.post.expires_at.some
       /\ last.post.expires_at.t <= last.now
       /\ remove_if(last.post, last.now) = Vacant
       /\ FollowingGet = Null

\* the instant an absolute expiration names, in milliseconds since the epoch
Instant(ex) == IF ex.kind = "UnixTimeSeconds" THEN ex.n * MillisPerSec ELSE ex.n

\* C19: absolute expiration. Set(k, v, UnixTimeSeconds(s)) stores expires_at =
\* epoch + s seconds and Set(k, v, UnixTimeMilliseconds(ms)) epoch + ms
\* milliseconds, whatever the clock at the Set; Get(k) returns Null at every
\* clock value >= that instant; and an instant already past at the Set leaves
\* an entry that is expired at once, like one set with Seconds(0).
C19_AbsoluteExpiration ==
    /\ (/\ last.cmd.op = "Set"
        /\ last.cmd.expiration.kind \in {"UnixTimeSeconds", "UnixTimeMilliseconds"}
        /\ Permitted)
       => /\ last.result.tag \in {"Ok", "Null", "BulkString"}
          /\ last.post = Expirable(last.cmd.value, Some(Instant(last.cmd.expiration)))
          /\ Instant(last.cmd.expiration) <= last.now
             => /\ is_expired(last.post, last.now)
                /\ FollowingGet = Null
    /\ \A k \in Keys :
          (/\ last.cmd = Get(k)
           /\ lastWrite[k].cmd.op = "Set"
           /\ lastWrite[k].cmd.expiration.kind \in {"UnixTimeSeconds", "UnixTimeMilliseconds"}
           /\ last.preClock >= Instant(lastWrite[k].cmd.expiration))
          => last.result = Null

\* C21: Strlen agrees with Get. Strlen(k) returns Integer(n) where n is the
\* length of the string a Get(k) at that moment returns, and Integer(0) exactly
\* when that Get returns Null or the empty string. The moment is the call's
\* eager-expire step: the Get is one AtomicCall on the entry and at the clock
\* which the remove_if of the Strlen looked at.
C21_StrlenAgreesWithGet ==
    last.cmd.op = "Strlen" =>
        LET g == AtomicCall(last.pre, Get(last.cmd.key), last.preClock).result
        IN /\ g = Null => last.result = Integer(0)
           /\ g # Null => last.result = Integer(Len(g.s))
           /\ last.result = Integer(0) <=> (g = Null \/ g = BulkString(<<>>))

\* a Strlen of a present, empty string, which answers 0 as an absent key does
C21_Witness ==
    /\ last.cmd.op = "Strlen"
    /\ last.pre.present /\ ~is_expired(last.pre, last.preClock)
    /\ last.pre.value = <<>>
    /\ last.result = Integer(0)

\* a Strlen of a string of MaxLen characters
C21_WitnessLong ==
    last.cmd.op = "Strlen" /\ last.result = Integer(MaxLen)

\* a Strlen of a key whose entry the Strlen itself removed as expired
C21_WitnessExpired ==
    /\ last.cmd.op = "Strlen"
    /\ last.pre.present /\ is_expired(last.pre, last.preClock)
    /\ last.result = Integer(0)

\* ------------------------------------------------ the claims on decoding
IsArrayOfBulk(w) ==
    w.type = "Array" /\ \A i \in DOMAIN w.items : w.items[i].type = "BulkString"
Tokens(w) == [i \in DOMAIN w.items |-> w.items[i].s]
TimedNames == ExpirationNames \ {<<"K", "E", "E", "P", "T", "T", "L">>}
OneKeyNames == {<<"G", "E", "T">>, <<"I", "N", "C", "R">>, <<"T", "T", "L">>,
                <<"S", "T", "R", "L", "E", "N">>}

\* the first thing wrong with the options of a SET, read from the left
RECURSIVE OptionError(_)
OptionError(o) ==
    IF o = <<>> THEN ""
    ELSE IF o[1] \in TimedNames
    THEN IF Len(o) < 2 THEN "wrong number of arguments"
         ELSE IF ~ParseI64(o[2]).ok THEN "not an integer: " \o Join(o[2])
         ELSE OptionError(SubSeq(o, 3, Len(o)))
    ELSE IF o[1] \in OptionNames THEN OptionError(Tail(o))
    ELSE "unexpected argument '" \o Join(o[1]) \o "'"

\* the message a value is to be refused with, "" when it is to be decoded;
\* forEmpty is the message for the array of no elements
DecodeError(w, forEmpty) ==
    IF w.type # "Array" THEN "invalid command: it should be an array"
    ELSE IF ~IsArrayOfBulk(w) THEN "invalid command: it should be an array of bulk strings"
    ELSE IF w.items = <<>> THEN forEmpty
    ELSE LET name == Tokens(w)[1]
             args == Tail(Tokens(w))
         IN IF name \notin CommandNames THEN "unknown command '" \o Join(name) \o "'"
            ELSE IF name \in OneKeyNames
            THEN IF Len(args) < 1 THEN "wrong number of arguments" ELSE ""
            ELSE IF name = <<"C", "L", "I", "E", "N", "T">> THEN ""
            ELSE IF Len(args) < 2 THEN "wrong number of arguments"
            ELSE IF name = <<"S", "E", "T">> THEN OptionError(SubSeq(args, 3, Len(args)))
            ELSE ""

\* the command of the table for a name
OpOfName(name) ==
    CASE name = <<"G", "E", "T">> -> "Get"
      [] name = <<"S", "E", "T">> -> "Set"
      [] name = <<"I", "N", "C", "R">> -> "Incr"
      [] name = <<"T", "T", "L">> -> "Ttl"
      [] name = <<"A", "P", "P", "E", "N", "D">> -> "Append"
      [] name = <<"S", "T", "R", "L", "E", "N">> -> "Strlen"
      [] OTHER -> "Client"

DecodesAs(forEmpty) ==
    parsed.done =>
        LET m == DecodeError(wire, forEmpty)
        IN /\ parsed.ok <=> m = ""
           /\ ~parsed.ok => parsed.msg = m
           /\ parsed.ok /\ m = "" =>
                 /\ parsed.cmd.op = OpOfName(Tokens(wire)[1])
                 /\ parsed.cmd.op # "Client" => parsed.cmd.key = Join(Tokens(wire)[2])
                 /\ parsed.cmd.op \in {"Set", "Append"} => parsed.cmd.value = Tokens(wire)[3]

\* C28, as stated: parse_command fails with "invalid command: it should be an
\* array" for a value that is no Array, with "invalid command: it should be an
\* array of bulk strings" for an Array with an element that is no BulkString,
\* with "unknown command '<name>'" for a first element that is no command name,
\* with "wrong number of arguments" for a missing mandatory argument, with
\* "unexpected argument '<token>'" for an unknown SET option and with "not an
\* integer: <token>" for a non-numeric EX/PX/EXAT/PXAT value; in every other
\* case, the array of no elements included, it yields the Command of the table.
C28_AsStated == DecodesAs("")

\* C28, corrected: the same outcomes, and "command is empty" for the Array of
\* no elements. The first failure in the order above is the one reported, the
\* options of SET being read from the left; a missing integer after
\* EX/PX/EXAT/PXAT is a missing mandatory argument.
C28_DecodingOutcomes == DecodesAs("command is empty")

\* the array of no elements has been refused
C28_Witness ==
    parsed.done /\ wire = resp_Array(<<>>) /\ parsed = Parsed(DecodeErr("command is empty"))

\* an array with a non-bulk element after a known name, a lower-case name, a SET
\* whose EX has no integer and one whose EX has a non-integer have been refused
C28_WitnessNotBulk ==
    /\ parsed.done /\ wire.type = "Array" /\ Len(wire.items) > 1
    /\ wire.items[1] = resp_BulkString(<<"S", "E", "T">>)
    /\ parsed.msg = "invalid command: it should be an array of bulk strings"
C28_WitnessUnknown ==
    parsed.done /\ parsed.msg = "unknown command 'get'" /\ Len(wire.items) = 2
C28_WitnessMissingInteger ==
    /\ parsed.done /\ Len(wire.items) = 4 /\ wire.items[4].s = <<"P", "X">>
    /\ parsed.msg = "wrong number of arguments"
C28_WitnessNotInteger ==
    parsed.done /\ parsed.msg = "not an integer: NX"
C28_WitnessUnexpected ==
    parsed.done /\ parsed.msg = "unexpected argument '-1'"
C28_WitnessNotArray ==
    parsed.done /\ wire = resp_BulkString(<<"G", "E", "T">>)
    /\ parsed.msg = "invalid command: it should be an array"

\* C29: the options of SET are applied left to right and a later option
\* overrides an earlier one of its category. The decoded expiration is the one
\* of the last of EX/PX/EXAT/PXAT/KEEPTTL (none when there is none), the decoded
\* condition that of the last of NX/XX, get is true exactly when GET occurs, and
\* each of the three depends on the options of its own category only.
LastOf(o, names) ==
    LET at == {i \in DOMAIN o : o[i] \in names}
    IN IF at = {} THEN 0 ELSE CHOOSE i \in at : \A j \in at : j <= i
ExpirationOf(o, i) ==
    CASE i = 0 -> NoExpiration
      [] o[i] = <<"E", "X">> -> Seconds(ParseI64(o[i + 1]).v)
      [] o[i] = <<"P", "X">> -> Milliseconds(ParseI64(o[i + 1]).v)
      [] o[i] = <<"E", "X", "A", "T">> -> UnixTimeSeconds(ParseI64(o[i + 1]).v)
      [] o[i] = <<"P", "X", "A", "T">> -> UnixTimeMilliseconds(ParseI64(o[i + 1]).v)
      [] OTHER -> Keep
ConditionOf(o, i) ==
    CASE i = 0 -> NoCondition
      [] o[i] = <<"N", "X">> -> IfNotExists
      [] OTHER -> IfExists
SetOptionsOf(w) == SubSeq(Tokens(w), 4, Len(w.items))

C29_SetOptions ==
    (parsed.done /\ parsed.ok /\ parsed.cmd.op = "Set") =>
        LET o == SetOptionsOf(wire)
        IN /\ parsed.cmd.expiration = ExpirationOf(o, LastOf(o, ExpirationNames))
           /\ parsed.cmd.condition = ConditionOf(o, LastOf(o, ConditionNames))
           /\ parsed.cmd.get <=> \E i \in DOMAIN o : o[i] = <<"G", "E", "T">>

\* a SET decoded with two different expiration options, the later one kept
C29_Witness ==
    /\ parsed.done /\ parsed.ok /\ parsed.cmd.op = "Set"
    /\ LET o == SetOptionsOf(wire)
       IN \E i, j \in DOMAIN o : /\ i < j /\ o[i] \in ExpirationNames /\ o[j] \in ExpirationNames
                                 /\ o[i] # o[j] /\ j = LastOf(o, ExpirationNames)
                                 /\ parsed.cmd.expiration = ExpirationOf(o, j)

\* a SET decoded with NX and then XX, and one with an option of each category
C29_WitnessCondition ==
    /\ parsed.done /\ parsed.ok /\ parsed.cmd.condition = IfExists
    /\ \E i \in DOMAIN SetOptionsOf(wire) : SetOptionsOf(wire)[i] = <<"N", "X">>
C29_WitnessCategories ==
    /\ parsed.done /\ parsed.ok /\ parsed.cmd.get
    /\ parsed.cmd.condition = IfNotExists /\ parsed.cmd.expiration = Seconds(-1)

\* C30: GET takes exactly one argument after the command name. parse_command
\* on an array of bulk strings that begins with GET yields Get{key} when
\* exactly one element follows, and fails when none or more than one follows.
C30_GetOneArgument ==
    (parsed.done /\ IsArrayOfBulk(wire) /\ wire.items # <<>>
                 /\ Tokens(wire)[1] = <<"G", "E", "T">>) =>
        IF Len(wire.items) = 2
        THEN parsed.ok /\ parsed.cmd = Get(Join(Tokens(wire)[2]))
        ELSE ~parsed.ok

\* GET with a second argument has been decoded as Get of the first
C30_Accepted ==
    /\ parsed.done /\ IsArrayOfBulk(wire) /\ Len(wire.items) = 3
    /\ Tokens(wire)[1] = <<"G", "E", "T">>
    /\ parsed = Parsed(Decoded(Get("k1")))

\* ------------------------------------------- the claims on connections
\* the task of the connection has nothing left to read, or has ended
Drained(c) == c.status # "none" /\ (c.inbox = <<>> \/ c.status # "open")
OnlyCommands(c) == \A i \in DOMAIN c.sent : c.sent[i].kind = "value"

\* the replies to frames executed one after the other on the store st
RECURSIVE Replay(_, _)
Replay(frames, st) ==
    IF frames = <<>> THEN <<>>
    ELSE LET d == parse_command(Head(frames).value)
             r == IF d.ok THEN call(st, d.cmd, clock) ELSE [store |-> st, result |-> Null]
             reply == IF d.ok THEN serialise_result(r.result)
                      ELSE resp_Error("ERR " \o d.msg)
         IN <<reply>> \o Replay(Tail(frames), r.store)

Pipelined(t) ==
    /\ Len(conn[t].outbox) = Len(conn[t].sent)
    /\ (\A u \in Connections \ {t} : conn[u].sent = <<>>)
          => conn[t].outbox = Replay(conn[t].sent, Empty)

\* C22: pipelining order. When a client has written k commands back-to-back on
\* one connection and stays connected, the server emits exactly k replies once
\* it has read them all, and the i-th reply is the result of the i-th command
\* executed after commands 1..i-1 of the connection have taken effect (checked
\* against a replay of the commands, for a connection that is alone in sending).
C22_Pipelining ==
    \A t \in Connections :
        (conn[t].peer = "open" /\ Drained(conn[t]) /\ OnlyCommands(conn[t])) => Pipelined(t)

\* the same, as long as no call has panicked with the engine mutex held
C22_WhileNoPanic ==
    \A t \in Connections :
        (conn[t].peer = "open" /\ Drained(conn[t]) /\ OnlyCommands(conn[t])
         /\ mutex = NoThread) => Pipelined(t)

\* two commands written back-to-back, and no reply to either of them
C22_Dropped ==
    \E t \in Connections : /\ conn[t].peer = "open" /\ OnlyCommands(conn[t])
                       /\ Len(conn[t].sent) = 2 /\ conn[t].outbox = <<>>
                       /\ conn[t].status = "engine_panic"

\* the task of connection t takes a frame which parse_command refuses
Undecodable(f) == f.kind = "value" /\ ~parse_command(f.value).ok
ServesUndecodable(t) ==
    /\ conn[t].status = "open" /\ conn[t].peer = "open"
    /\ conn[t].inbox # <<>> /\ Undecodable(Head(conn[t].inbox))
    /\ conn'[t] # conn[t] /\ conn'[t].inbox = Tail(conn[t].inbox)
RepliesErr(t) ==
    /\ store' = store
    /\ conn'[t].status = "open"
    /\ conn'[t].outbox =
          Append(conn[t].outbox,
                 resp_Error("ERR " \o parse_command(Head(conn[t].inbox).value).msg))

\* C23: decoding errors keep the connection open. When the server takes from a
\* connection a well-formed RESP value that is no recognized command or lacks
\* arguments, it replies with the RESP Error "ERR <msg>", the store is
\* unchanged, and the connection stays open with its next frame to be read.
C23_DecodingErrors == [][\A t \in Connections : ServesUndecodable(t) => RepliesErr(t)]_vars

\* the same, as long as no call has panicked with the engine mutex held
C23_WhileNoPanic ==
    [][\A t \in Connections : (ServesUndecodable(t) /\ mutex = NoThread) => RepliesErr(t)]_vars

\* a connection whose first frame was refused with an Error reply and whose
\* second frame was then answered
C23_NextProcessed ==
    \E t \in Connections : /\ Len(conn[t].outbox) = 2
                       /\ conn[t].outbox[1] = resp_Error("ERR unknown command 'PING'")
                       /\ conn[t].outbox[2] = resp_Integer(1)

\* a connection closed on an undecodable frame, with no reply
C23_NoReply ==
    \E t \in Connections : /\ conn[t].status = "lock_poisoned" /\ conn[t].peer = "open"
                       /\ Len(conn[t].sent) = 1 /\ Undecodable(conn[t].sent[1])
                       /\ conn[t].outbox = <<>>

\* C24: a protocol error on one connection (invalid prefix, invalid length,
\* invalid UTF-8, end of stream in the middle of a frame) ends only the task of
\* that connection: the step changes no other connection, the accept loop keeps
\* running, the engine mutex is left as it was and the store is unchanged.
C24_ProtocolError ==
    [][\A t \in Connections :
          (conn[t].status = "open" /\ conn'[t].status = "protocol_error") =>
              /\ \A u \in Connections \ {t} : conn'[u] = conn[u]
              /\ accepting /\ accepting'
              /\ mutex' = mutex
              /\ store' = store]_vars

\* a connection ended by a protocol error, next to one that has been accepted
\* and has had two commands answered
C24_Witness ==
    \E t, u \in Connections :
        /\ conn[t].status = "protocol_error"
        /\ conn[u].status = "open" /\ Len(conn[u].outbox) = 2
        /\ accepting

\* a connection ended by the end of the stream in the middle of a frame
C24_WitnessMidFrame ==
    \E t \in Connections : /\ conn[t].status = "protocol_error"
                       /\ \A i \in DOMAIN conn[t].sent : conn[t].sent[i] # Garbage

\* C25: client drop. When a client has gone and writing the reply fails, the
\* command that was dispatched has taken its full effect on the store, only the
\* task of that connection ends, and the other connections, the accept loop and
\* the engine mutex are as they were.
C25_ClientDrop ==
    [][\A t \in Connections :
          (conn[t].status = "open" /\ conn'[t].status = "write_error") =>
              LET d == parse_command(Head(conn[t].inbox).value)
              IN /\ store' = IF d.ok THEN call(store, d.cmd, clock).store ELSE store
                 /\ \A u \in Connections \ {t} : conn'[u] = conn[u]
                 /\ accepting /\ accepting'
                 /\ mutex' = NoThread]_vars

\* the only command ever sent is an INCR whose reply could not be written, and
\* the counter is 1
C25_Witness ==
    \E t \in Connections :
        /\ conn[t].status = "write_error"
        /\ Len(conn[t].sent) = 1 /\ parse_command(conn[t].sent[1].value).cmd = Incr("k1")
        /\ \A u \in Connections \ {t} : conn[u].sent = <<>>
        /\ store["k1"] = new_perpetual(<<"1">>)
        /\ mutex = NoThread /\ accepting

\* ------------------------------------------ the claims on concurrency
InCall(t) == pc[t] \in {"remove_if", "read", "entry", "apply"}

\* C26: no global lock. A command on key k1 is never made to wait for a
\* command in progress on a different key k2: whenever a caller is inside a call
\* on k2, another caller that has calls left can begin a call on k1.
C26_NoGlobalLock ==
    \A t, u \in Clients :
        (t # u /\ InCall(u) /\ cmd[u].key = "k2" /\ pc[t] = "idle" /\ calls[t] < MaxCalls)
            => ENABLED Invoke(t, Incr("k1"))

\* in the server a command on k1 cannot begin while one on k2 is in progress
C26_Waits ==
    \E t, u \in Clients :
        /\ via = "server" /\ t # u /\ InCall(u) /\ cmd[u].key = "k2" /\ mutex = u
        /\ pc[t] = "idle" /\ calls[t] < MaxCalls
        /\ ~ENABLED Invoke(t, Incr("k1"))

\* the same for direct callers of the engine, which share no lock
C26_EngineOnly == via = "engine" => C26_NoGlobalLock

\* C27: deadlock and starvation freedom. Under fair scheduling every call that
\* has begun eventually returns a Result, whatever the keys of the calls.
C27_EveryCallReturns == \A t \in Clients : InCall(t) ~> (pc[t] = "idle")

\* every call that has begun eventually returns or panics
C27_ReturnsOrPanics ==
    \A t \in Clients : InCall(t) ~> (pc[t] \in {"idle", "panicked"})

\* no reachable state has all the callers inside a call blocked
C27_NoDeadlock ==
    (\E t \in Clients : InCall(t)) => \E t \in Clients : InCall(t) /\ ENABLED Step(t)

\* a call has ended without a Result
C27_Panicked == \E t \in Clients : pc[t] = "panicked"

\* ------------------------------------------------- the claims on replies
Replied == parsed.done /\ response # NoReply

\* C31: the reply of run_cmd encodes the Result of the engine: Ok as
\* SimpleString("OK"), Null as Null, BulkString(s) as BulkString(s), Integer(i) as
\* Integer(i), Error(m) as Error(m) with m as the engine gave it; a decoding
\* error m, and nothing else, is replied as Error("ERR " + m)
C31_ResultEncoding ==
    Replied =>
        /\ ~parsed.ok <=> last.result = NoResult
        /\ ~parsed.ok => response = resp_Error("ERR " \o parsed.msg)
        /\ last.result = Ok => response = resp_SimpleString("OK")
        /\ last.result = Null => response = resp_Null
        /\ last.result.tag = "BulkString" =>
               response.type = "BulkString" /\ response.s = last.result.s
        /\ last.result.tag = "Integer" =>
               /\ response.type = "Integer"
               /\ response.n = last.result.n /\ response.digits = last.result.s
        /\ last.result.tag = "Error" =>
               response.type = "Error" /\ response.text = last.result.msg
        /\ response.type \in {"SimpleString", "Null"} => last.result \in {Ok, Null}

\* the engine has returned an Error, which is replied without the prefix
C31_Witness ==
    /\ Replied /\ last.cmd = Incr("k1")
    /\ last.result = Error("invalid digit found in string")
    /\ response = resp_Error("invalid digit found in string")
C31_WitnessDecoder ==
    Replied /\ ~parsed.ok /\ response = resp_Error("ERR unknown command 'PING'")
C31_WitnessBulk == Replied /\ response = resp_BulkString(<<"a">>)
C31_WitnessNull == Replied /\ response = resp_Null
C31_WitnessOk == Replied /\ last.cmd.op = "Set" /\ response = resp_SimpleString("OK")
C31_WitnessInteger == Replied /\ last.cmd.op = "Ttl" /\ response = resp_Integer(-1)

\* the value given to run_cmd is an array of bulk strings whose first is CLIENT
IsClient(w) ==
    IsArrayOfBulk(w) /\ w.items # <<>> /\ w.items[1].s = <<"C", "L", "I", "E", "N", "T">>

\* C34: CLIENT decodes to Client whatever follows the name, the engine returns Ok
\* for it, and no entry of the store, expired or not, is changed by the call
C34_ClientNoOp ==
    [][ops' = ops + 1 /\ IsClient(wire')
       => /\ parsed'.ok /\ parsed'.cmd = Client
          /\ last'.cmd = Client /\ last'.result = Ok
          /\ response' = resp_SimpleString("OK")
          /\ store' = store]_vars

\* Client has been called, with arguments after the name, on a store that holds
\* an entry which has expired and has not been removed
C34_Witness ==
    /\ IsClient(wire) /\ Len(wire.items) > 1
    /\ last.cmd = Client /\ last.result = Ok
    /\ store["k1"].present /\ is_expired(store["k1"], clock)
C34_WitnessLive ==
    /\ IsClient(wire) /\ Len(wire.items) = 1
    /\ last.cmd = Client /\ last.result = Ok
    /\ store["k1"].present /\ ~is_expired(store["k1"], clock)

\* --------------------------------------------------- the claims on the codec
\* the format of a value, as text
RECURSIVE Format(_), FormatAll(_)
Format(v) ==
    CASE v.type = "SimpleString" -> "+" \o v.text \o "\r\n"
      [] v.type = "Error" -> "-" \o v.text \o "\r\n"
      [] v.type = "BulkString" ->
             "$" \o Join(to_string(Len(v.s))) \o "\r\n" \o Join(v.s) \o "\r\n"
      [] v.type = "Array" ->
             "*" \o Join(to_string(Len(v.items))) \o "\r\n" \o FormatAll(v.items)
      [] v.type = "Integer" ->
             ":" \o Join(IF v.digits = <<>> THEN to_string(v.n) ELSE v.digits) \o "\r\n"
      [] v.type = "Null" -> "_\r\n"
FormatAll(items) ==
    IF items = <<>> THEN "" ELSE Format(Head(items)) \o FormatAll(Tail(items))

\* C33: what serialise has written for the values so far is, value after value,
\* '+' s CRLF for SimpleString(s), '-' s CRLF for Error(s), '$' length CRLF b CRLF
\* for BulkString(b), '*' count CRLF and the elements in order for Array(xs),
\* ':' decimal CRLF for Integer(i) and '_' CRLF for Null, and nothing else
C33_SerialisationFormat == got = <<>> => Join(bytes) = FormatAll(written)

\* an array of a Null and a negative Integer has been written
C33_Witness ==
    /\ got = <<>>
    /\ written = <<resp_Array(<<resp_Null, resp_Integer(-12)>>)>>
    /\ Join(bytes) = "*2\r\n_\r\n:-12\r\n"
C33_WitnessBulk ==
    /\ got = <<>>
    /\ written = <<resp_BulkString(<<CR, LF, "$">>), resp_Array(<<resp_BulkString(<<CR, LF, "$">>)>>)>>
    /\ Join(bytes) = "$3\r\n\r\n$\r\n*1\r\n$3\r\n\r\n$\r\n"
C33_WitnessTexts ==
    /\ got = <<>>
    /\ written = <<resp_Array(<<resp_SimpleString("OK"), resp_Error("ERR x")>>)>>
    /\ Join(bytes) = "*2\r\n+OK\r\n-ERR x\r\n"

\* a value built only from Array and BulkString
RECURSIVE Parseable(_)
Parseable(v) ==
    \/ v.type = "BulkString"
    \/ v.type = "Array" /\ \A i \in DOMAIN v.items : Parseable(v.items[i])

\* C32: when the values serialised into a stream are built only from Array and
\* BulkString, parse returns them, one per call and in order, and leaves in the
\* stream exactly the bytes of the values it has not read yet
C32_RoundTrip ==
    (\A i \in DOMAIN written : Parseable(written[i])) =>
        /\ Len(got) <= Len(written)
        /\ \A i \in DOMAIN got : got[i].kind = "ok" /\ got[i].value = written[i]
        /\ bytes = serialise_items(SubSeq(written, Len(got) + 1, Len(written)))

\* two values written back to back have been read back: an array and the array
\* that holds it, with a string that has CR LF in it
C32_Witness ==
    /\ Len(written) = 2 /\ Len(got) = 2 /\ bytes = <<>>
    /\ written[1] = resp_Array(<<resp_BulkString(<<CR, LF, "$">>)>>)
    /\ written[2] = resp_Array(<<written[1]>>)
    /\ got[2].value = written[2]
\* the empty string and the empty array
C32_WitnessEmpty ==
    /\ Len(written) = 2 /\ Len(got) = 2 /\ bytes = <<>>
    /\ written[1] = resp_Array(<<>>)
    /\ written[2] = resp_Array(<<resp_BulkString(<<>>), resp_Array(<<>>)>>)
    /\ got[2].value = written[2]
\* the second value is still in the stream
C32_WitnessPending ==
    /\ Len(written) = 2 /\ Len(got) = 1 /\ Parseable(written[1]) /\ Parseable(written[2])
    /\ bytes # <<>>

\* a line of digits ending in CR LF
IsLengthLine(line) ==
    /\ Len(line) >= 3
    /\ line[Len(line) - 1] = CR /\ line[Len(line)] = LF
    /\ \A i \in 1..(Len(line) - 2) : IsDigit(line[i])

\* C38: parse_length returns the number of a line of digits followed by CR LF, and
\* the error "invalid length" for every other line, the empty line at the end of
\* the stream included
C38_LengthLines ==
    got # <<>> =>
        LET line == read_line(written)
        IN IF IsLengthLine(line)
           THEN got[1].kind = "ok" /\ got[1].len = DigitsValue(SubSeq(line, 1, Len(line) - 2))
           ELSE got[1] = IoErr("invalid length")

\* the same for the lines that end in CR LF, and for the lines of two bytes and more
\* without overflow checks
C38_CrLfLines ==
    got # <<>> /\ Len(read_line(written)) >= 2 =>
        LET line == read_line(written)
        IN \/ IsLengthLine(line) /\ got[1].kind = "ok"
              /\ got[1].len = DigitsValue(SubSeq(line, 1, Len(line) - 2))
           \/ ~IsLengthLine(line) /\ got[1] = IoErr("invalid length")
           \/ /\ SubSeq(line, Len(line) - 1, Len(line)) # CRLF
              /\ got[1] = from_str_usize(SubSeq(line, 1, Len(line) - 2), got[1].rest)

\* a length has been returned for a line that does not end in CR LF
C38_WrongLength ==
    /\ got # <<>> /\ got[1].kind = "ok" /\ got[1].len = 1
    /\ written = <<"1", "2", LF>>
\* the subtraction has overflowed
C38_Panicked == got # <<>> /\ got[1] = IoPanic /\ written = <<>> /\ build = "debug"
\* a length has been returned for a line that is well formed
C38_Accepted ==
    /\ got # <<>> /\ got[1].kind = "ok" /\ got[1].len = 12
    /\ written = <<"1", "2", CR, LF>>

\* ------------------------------------------- the claims on Ttl and on Incr
\* Ttl has found an entry with an expiration after its eager-expire step
TtlFound == last.cmd.op = "Ttl" /\ last.at.present /\ last.at.expires_at.some
\* what is left of the entry's life at the clock Ttl computes against
Remaining == last.at.expires_at.t - last.now

\* C35: when Ttl finds an entry with an expiration after its eager-expire step, it
\* returns 0 for a remaining duration in [0, 1 s) and -2 for a non-positive one,
\* whether or not the clock has advanced since the eager-expire step; and Ttl
\* returns no negative number but -1 and -2
C35_TtlCorner ==
    /\ TtlFound =>
          /\ (0 <= Remaining /\ Remaining < MillisPerSec) => last.result = Integer(0)
          /\ Remaining <= 0 => last.result = Integer(-2)
    /\ (last.cmd.op = "Ttl" /\ last.result.n < 0) => last.result.n \in {-1, -2}

\* the same, with -2 for a negative remaining duration only
C35_OffTheInstant ==
    /\ TtlFound =>
          /\ (0 <= Remaining /\ Remaining < MillisPerSec) => last.result = Integer(0)
          /\ Remaining < 0 => last.result = Integer(-2)
    /\ (last.cmd.op = "Ttl" /\ last.result.n < 0) => last.result.n \in {-1, -2}

\* Ttl has computed a remaining duration of zero: the clock has reached the
\* expiration since the eager-expire step
C35_AtTheInstant ==
    TtlFound /\ Remaining = 0 /\ last.preClock < last.now /\ last.result = Integer(0)
\* the clock has passed the expiration since the eager-expire step
C35_Overtaken ==
    TtlFound /\ Remaining < 0 /\ last.preClock < last.now /\ last.result = Integer(-2)
\* less than a second is left
C35_LastSecond ==
    TtlFound /\ 0 < Remaining /\ Remaining < MillisPerSec /\ last.result = Integer(0)

\* C36: after an Incr that returns an Integer the entry has no expiration,
\* whether the key was absent before the call or present with an expiration
\* still to come
C36_IncrNoExpiration ==
    (last.cmd.op = "Incr" /\ last.result.tag = "Integer")
    => last.post.present /\ ~last.post.expires_at.some

\* the same for the counters that Incr creates
C36_FreshCounter ==
    (last.cmd.op = "Incr" /\ last.result.tag = "Integer" /\ PreAbsent)
    => last.post.present /\ ~last.post.expires_at.some

\* an Incr has found a live counter with an expiration, and has left it in place
C36_Preserved ==
    /\ last.cmd.op = "Incr" /\ last.result = Integer(10)
    /\ PreLive /\ last.pre.expires_at.some
    /\ last.post.expires_at = last.pre.expires_at

\* ------------------------------------------- the claims on the await points
\* the task of the connection is alive: it is suspended in a read, or in the
\* write or the flush of a reply
Suspended(t) == conn[t].status \in {"open", "writing"}

\* C37: a task that is suspended at an await point holds neither the engine lock
\* nor the entry handle of a key, so that a connection waiting for I/O keeps no
\* command of another connection from running
C37_NoLockAcrossAwait ==
    \A t \in Connections :
        Suspended(t) => mutex # t /\ \A k \in Keys : lock[k] # t

\* a connection is suspended in the write of its reply, and a command of the
\* other connection, sent and run after its own, has been answered
C37_Witness ==
    \E t, u \in Connections :
        /\ t # u
        /\ conn[t].status = "writing" /\ conn[t].pending = resp_Integer(1)
        /\ conn[u].status = "open" /\ conn[u].outbox = <<resp_Integer(2)>>
        /\ mutex = NoThread

\* ---------------------------------------------------- the claims on keys
\* C39: no command that parse_command returns has the empty key, and the store
\* never holds an entry under the empty key
C39_KeysNonEmpty ==
    /\ (parsed.done /\ parsed.ok /\ parsed.cmd.op # "Client") => parsed.cmd.key # EmptyKey
    /\ \A k \in DOMAIN store : store[k].present => k # EmptyKey

\* a SET with the empty string for its key has been decoded, and run
C39_EmptyKeyStored ==
    /\ parsed.done /\ parsed.ok /\ parsed.cmd.op = "Set" /\ parsed.cmd.key = EmptyKey
    /\ response = resp_SimpleString("OK")
    /\ store[EmptyKey] = new_perpetual(<<"a">>)

\* the command of the call in which caller t takes a step
Stepping(t) == IF pc[t] = "idle" THEN cmd'[t] ELSE cmd[t]

\* C40: a step of a call on key k, whatever the call returns in the end, leaves
\* the entry of every other key as it was: presence, value and expires_at, of
\* expired entries too; and nothing but a call changes an entry
C40_KeyIsolation ==
    [][/\ \A t \in Threads :
             pc'[t] # pc[t] => \A k \in Keys \ {Stepping(t).key} : store'[k] = store[k]
       /\ (\A t \in Threads : pc'[t] = pc[t]) => store' = store]_vars

\* Incr on k1 has returned an Error while k2 holds an entry that has expired
C40_Witness ==
    /\ last.cmd = Incr("k1") /\ last.result.tag = "Error"
    /\ store["k2"].present /\ is_expired(store["k2"], clock)
\* a Set on k1 has been rejected by its condition
C40_WitnessRejected ==
    /\ last.cmd.op = "Set" /\ last.cmd.key = "k1" /\ last.cmd.condition = IfNotExists
    /\ last.result = Null
    /\ store["k2"].present /\ is_expired(store["k2"], clock)
\* a call on k2 has removed the expired entry of k2 while k1 holds an expired one
C40_WitnessRemoved ==
    /\ last.cmd = Get("k2") /\ last.result = Null /\ last.pre.present
    /\ store["k1"].present /\ is_expired(store["k1"], clock)
====
